---- MODULE Spec2Model ----
(***************************************************************************)
(* The synchronous command/response bridge of pulser: the worker thread of *)
(* PulseAudioLoop (mainloop.rs), the threaded event loop that runs the     *)
(* completion callbacks, the audio server as seen through its primitives,  *)
(* and the blocking facade PulseAudio (simple.rs).                         *)
(***************************************************************************)
EXTENDS Integers, Sequences, FiniteSets, TLC

\* ------------------------------------------------------------------ bounds

\* Commands one session sends before its closing Disconnect.
MaxCmds == 2

\* Server change notifications delivered in one session.
MaxNotif == 1

\* Channels of the sinks whose volume is updated.
MaxChannels == 3

\* ------------------------------------------------------------- identifiers

\* PAIdent::Index(u32) / PAIdent::Name(String)
Index(i) == [t |-> "Index", idx |-> i, name |-> ""]
Name(n) == [t |-> "Name", idx |-> -1, name |-> n]
NoIdent == [t |-> "None", idx |-> -1, name |-> ""]

\* ------------------------------------------------------------------ volume

\* Volume::NORMAL
PA_VOLUME_NORM == 65536

\* PAVol
Value(v) == [u |-> "Value", n |-> v]
Percentage(p) == [u |-> "Percentage", n |-> p]

\* VolumeSpec
All(v) == [t |-> "All", vols |-> <<v>>]
Channels(vs) == [t |-> "Channels", vols |-> vs]
NoSpec == [t |-> "None", vols |-> <<>>]

\* Rust's float-to-u32 `as` cast of num/den: truncates toward zero, and a
\* negative value saturates to 0 (the volumes used here stay far below 2^32).
AsU32(num, den) ==
    IF num <= 0 THEN 0 ELSE num \div den

\* A conversion that rounds the product to the nearest raw value.
ToRaw_rounded(vol) ==
    IF vol.u = "Value" THEN vol.n
    ELSE AsU32(2 * PA_VOLUME_NORM * vol.n + 100, 200)

\* impl From<PAVol> for Volume
ToRaw(vol) ==
    IF vol.u = "Value" THEN vol.n
    ELSE AsU32(PA_VOLUME_NORM * vol.n, 100)

\* A u32 as its two 16-bit halves, for the values beyond the integers of
\* the checker: hi * Half + lo.
Half == 65536
U32(hi, lo) == [hi |-> hi, lo |-> lo]
U32_MAX == U32(Half - 1, Half - 1)

\* A float-to-u32 cast that keeps the low 32 bits of a value too large.
ToRaw32_wrapping(vol) ==
    IF vol.u = "Value" THEN U32(vol.n \div Half, vol.n % Half)
    ELSE IF vol.n <= 0 THEN U32(0, 0)
    ELSE U32((vol.n \div 100) % Half, ((vol.n % 100) * PA_VOLUME_NORM) \div 100)

\* impl From<PAVol> for Volume over the whole range of the `as u32` cast:
\* NORMAL * (pct / 100) is NORMAL * (pct div 100) plus
\* NORMAL * (pct mod 100) / 100, NORMAL being 2^16; the cast truncates,
\* turns a negative value into 0 and a value above u32::MAX into u32::MAX.
ToRaw32(vol) ==
    IF vol.u = "Value" THEN U32(vol.n \div Half, vol.n % Half)
    ELSE IF vol.n <= 0 THEN U32(0, 0)
    ELSE IF vol.n \div 100 >= Half THEN U32_MAX
    ELSE U32(vol.n \div 100, ((vol.n % 100) * PA_VOLUME_NORM) \div 100)

\* usize -> u8 cast of the channel count
AsU8(n) == n % 256

\* pa_cvolume holds at most this many channel values
CHANNELS_MAX == 32

\* A constructor that fills the channels from the last volume to the first.
new_channel_volumes_reversed(volumes) ==
    IF Len(volumes) > CHANNELS_MAX
    THEN [panic |-> TRUE, cv |-> <<>>]
    ELSE [panic |-> FALSE,
          cv |-> [i \in 1..Len(volumes) |-> volumes[Len(volumes) + 1 - i]]]

\* A constructor that writes past the 32 values without a bounds check.
new_channel_volumes_unchecked(volumes) ==
    [panic |-> FALSE, cv |-> volumes]

\* new_channel_volumes: writes values[i] for every i, so a list longer
\* than the array panics on the out-of-bounds index.
new_channel_volumes(volumes) ==
    IF Len(volumes) > CHANNELS_MAX
    THEN [panic |-> TRUE, cv |-> <<>>]
    ELSE [panic |-> FALSE, cv |-> volumes]

\* An update that sets the first channel only.
updated_channel_volumes_first(current, volume_spec) ==
    IF volume_spec.t = "All"
    THEN [panic |-> FALSE,
          cv |-> [i \in 1..Len(current) |->
                    IF i = 1 THEN ToRaw(volume_spec.vols[1]) ELSE current[i]]]
    ELSE IF AsU8(Len(volume_spec.vols)) # Len(current)
    THEN [panic |-> TRUE, cv |-> <<>>]
    ELSE new_channel_volumes(
             [i \in 1..Len(volume_spec.vols) |-> ToRaw(volume_spec.vols[i])])

\* updated_channel_volumes: the new per-channel vector, or a panic when the
\* assertion on the channel count fails.
updated_channel_volumes(current, volume_spec) ==
    IF volume_spec.t = "All"
    THEN [panic |-> FALSE,
          cv |-> [i \in 1..Len(current) |-> ToRaw(volume_spec.vols[1])]]
    ELSE IF AsU8(Len(volume_spec.vols)) # Len(current)
    THEN [panic |-> TRUE, cv |-> <<>>]
    ELSE new_channel_volumes(
             [i \in 1..Len(volume_spec.vols) |-> ToRaw(volume_spec.vols[i])])

\* ---------------------------------------------------------------- commands

\* PACommand: each kind with the object category it addresses and what it
\* does there (the arms of the match in start_loop).
KindInfo ==
    [GetServerInfo |-> [cat |-> "server", act |-> "ServerInfo"],
     GetDefaultSink |-> [cat |-> "server", act |-> "DefaultSink"],
     SetDefaultSink |-> [cat |-> "sink", act |-> "SetDefault"],
     SetDefaultSource |-> [cat |-> "source", act |-> "SetDefault"],
     GetSinkInfo |-> [cat |-> "sink", act |-> "GetInfo"],
     GetSinkMute |-> [cat |-> "sink", act |-> "GetMute"],
     GetSinkVolume |-> [cat |-> "sink", act |-> "GetVolume"],
     SetSinkMute |-> [cat |-> "sink", act |-> "SetMute"],
     SetSinkVolume |-> [cat |-> "sink", act |-> "SetVolume"],
     GetSourceInfo |-> [cat |-> "source", act |-> "GetInfo"],
     GetSourceMute |-> [cat |-> "source", act |-> "GetMute"],
     GetSourceVolume |-> [cat |-> "source", act |-> "GetVolume"],
     SetSourceMute |-> [cat |-> "source", act |-> "SetMute"],
     SetSourceVolume |-> [cat |-> "source", act |-> "SetVolume"],
     GetSinkInputInfo |-> [cat |-> "sink_input", act |-> "GetInfo"],
     GetSinkInputMute |-> [cat |-> "sink_input", act |-> "GetMute"],
     GetSinkInputVolume |-> [cat |-> "sink_input", act |-> "GetVolume"],
     SetSinkInputMute |-> [cat |-> "sink_input", act |-> "SetMute"],
     SetSinkInputVolume |-> [cat |-> "sink_input", act |-> "SetVolume"],
     KillSinkInput |-> [cat |-> "sink_input", act |-> "Kill"],
     GetSourceOutputInfo |-> [cat |-> "source_output", act |-> "GetInfo"],
     GetSourceOutputMute |-> [cat |-> "source_output", act |-> "GetMute"],
     GetSourceOutputVolume |-> [cat |-> "source_output", act |-> "GetVolume"],
     SetSourceOutputMute |-> [cat |-> "source_output", act |-> "SetMute"],
     SetSourceOutputVolume |-> [cat |-> "source_output", act |-> "SetVolume"],
     KillSourceOutput |-> [cat |-> "source_output", act |-> "Kill"],
     GetSinkInfoList |-> [cat |-> "sink", act |-> "List"],
     GetSinkInputInfoList |-> [cat |-> "sink_input", act |-> "List"],
     GetSourceInfoList |-> [cat |-> "source", act |-> "List"],
     GetSourceOutputInfoList |-> [cat |-> "source_output", act |-> "List"],
     Subscribe |-> [cat |-> "server", act |-> "Subscribe"],
     Disconnect |-> [cat |-> "server", act |-> "Disconnect"]]

Cat(kind) == KindInfo[kind].cat
Act(kind) == KindInfo[kind].act

Cats == {"sink", "source", "sink_input", "source_output"}

\* A command as it travels on the request channel; cid numbers the commands
\* of a session in the order they were sent.
Cmd(cid, kind, id, mute, spec) ==
    [cid |-> cid, kind |-> kind, id |-> id, mute |-> mute, spec |-> spec]

NoCmd == Cmd(0, "Disconnect", NoIdent, FALSE, NoSpec)

\* PAResponse; cid is the command whose dispatch produced it.
Resp(kind, cid, id, mute, vols, items) ==
    [kind |-> kind, cid |-> cid, id |-> id, mute |-> mute, vols |-> vols,
     items |-> items]

\* PAResponse::<Category>Info and PAResponse::<Category>InfoList
InfoKind(cat) ==
    CASE cat = "sink" -> "SinkInfo"
      [] cat = "source" -> "SourceInfo"
      [] cat = "sink_input" -> "SinkInputInfo"
      [] cat = "source_output" -> "SourceOutputInfo"

ListKind(cat) ==
    CASE cat = "sink" -> "SinkInfoList"
      [] cat = "source" -> "SourceInfoList"
      [] cat = "sink_input" -> "SinkInputInfoList"
      [] cat = "source_output" -> "SourceOutputInfoList"

\* ------------------------------------------------------------ audio server

\* Each category holds one object, with this index and this name.
ObjIndex == 0
ObjName == "a"

\* The server as the primitives see it: per category the object (present,
\* whether its info carries a name, mute, per-channel volume), the default
\* sink and source and the subscription mask.
InitServer ==
    [obj |-> [c \in Cats |->
                [present |-> TRUE, named |-> TRUE, mute |-> FALSE,
                 vol |-> <<PA_VOLUME_NORM, PA_VOLUME_NORM>>]],
     def |-> "",
     defSource |-> "",
     mask |-> FALSE]

Found(s, cat, id) ==
    /\ s.obj[cat].present
    /\ id.t = "Index" => id.idx = ObjIndex
    /\ id.t = "Name" => s.obj[cat].named /\ id.name = ObjName

\* An operation the client library has in flight: the primitive the worker
\* or a callback issued, for which command, and who held the loop lock when
\* it was issued.
Op(cmd, prim, id, cv, stage, holder) ==
    [cid |-> cmd.cid, kind |-> cmd.kind, prim |-> prim, id |-> id,
     mute |-> cmd.mute, spec |-> cmd.spec, cv |-> cv, stage |-> stage,
     lk |-> holder]

NoOp == Op(NoCmd, "none", NoIdent, <<>>, 0, "free")

\* What the server answers to one primitive, and its state afterwards.
\* accept = FALSE is a request the server refuses for a reason of its own.
ServerReply(s, op, accept) ==
    LET cat == Cat(op.kind)
        hit == accept /\ Found(s, cat, op.id)
        same == [ok |-> FALSE, srv |-> s, items |-> <<>>]
    IN  CASE op.prim = "get_server_info" ->
               [ok |-> TRUE, srv |-> s, items |-> <<>>]
          [] op.prim = "get_info" ->
               [ok |-> hit, srv |-> s, items |-> <<>>]
          [] op.prim = "get_info_list" ->
               [ok |-> accept, srv |-> s,
                items |-> IF s.obj[cat].present
                          THEN <<[index |-> ObjIndex, name |-> ObjName]>>
                          ELSE <<>>]
          [] op.prim = "set_mute" ->
               IF hit
               THEN [ok |-> TRUE,
                     srv |-> [s EXCEPT !.obj[cat].mute = op.mute],
                     items |-> <<>>]
               ELSE same
          [] op.prim = "set_volume" ->
               IF hit /\ Len(op.cv) = Len(s.obj[cat].vol)
               THEN [ok |-> TRUE,
                     srv |-> [s EXCEPT !.obj[cat].vol = op.cv],
                     items |-> <<>>]
               ELSE same
          [] op.prim = "kill" ->
               IF hit
               THEN [ok |-> TRUE,
                     srv |-> [s EXCEPT !.obj[cat].present = FALSE],
                     items |-> <<>>]
               ELSE same
          [] op.prim = "set_default" ->
               IF hit
               THEN [ok |-> TRUE,
                     srv |-> IF cat = "sink"
                             THEN [s EXCEPT !.def = op.id.name]
                             ELSE [s EXCEPT !.defSource = op.id.name],
                     items |-> <<>>]
               ELSE same
          [] op.prim = "subscribe" ->
               IF accept
               THEN [ok |-> TRUE, srv |-> [s EXCEPT !.mask = TRUE],
                     items |-> <<>>]
               ELSE same

\* ----------------------------------------------------- completion callbacks

\* What running a callback does: the responses it sends on tx, the
\* primitives it issues, and whether it panicked (the binding's callback
\* proxy catches the unwind, so a panic ends the callback and nothing else).
Eff(resp, issue, panic) == [resp |-> resp, issue |-> issue, panic |-> panic]
NoEff == Eff(<<>>, <<>>, FALSE)
EffThen(e1, e2) ==
    Eff(e1.resp \o e2.resp, e1.issue \o e2.issue, e1.panic \/ e2.panic)

Plain(kind, op) == Resp(kind, op.cid, NoIdent, FALSE, <<>>, <<>>)

\* handle_error: one OpError with the context's last error text.
handle_error(op) == Eff(<<Plain("OpError", op)>>, <<>>, FALSE)

\* success_cb: OpComplete on success, handle_error otherwise.
success_cb(op, success) ==
    IF ~success THEN handle_error(op)
    ELSE Eff(<<Plain("OpComplete", op)>>, <<>>, FALSE)

\* The closure each handler passes to with_<category>_info, run on the item
\* the lookup delivered. ok = FALSE is the closure returning Err.
with_info_closure(op, info, holder) ==
    LET act == Act(op.kind)
        cmd == Cmd(op.cid, op.kind, op.id, op.mute, op.spec)
    IN  CASE act = "GetInfo" ->
               [ok |-> TRUE, eff |-> Eff(<<Plain(InfoKind(Cat(op.kind)), op)>>,
                                         <<>>, FALSE)]
          [] act = "GetMute" ->
               [ok |-> TRUE,
                eff |-> Eff(<<Resp("Mute", op.cid, op.id, info.mute, <<>>, <<>>)>>,
                            <<>>, FALSE)]
          [] act = "GetVolume" ->
               [ok |-> TRUE,
                eff |-> Eff(<<Resp("Volume", op.cid, op.id, FALSE, info.vol, <<>>)>>,
                            <<>>, FALSE)]
          [] act = "SetVolume" ->
               LET u == updated_channel_volumes(info.vol, op.spec)
               IN  IF u.panic
                   THEN [ok |-> TRUE, eff |-> Eff(<<>>, <<>>, TRUE)]
                   ELSE [ok |-> TRUE,
                         eff |-> Eff(<<>>,
                                     <<Op(cmd, "set_volume", op.id, u.cv, 2, holder)>>,
                                     FALSE)]
          [] act = "SetDefault" ->
               IF info.named
               THEN [ok |-> TRUE,
                     eff |-> Eff(<<>>,
                                 <<Op(cmd, "set_default", Name(ObjName), <<>>, 2,
                                      holder)>>,
                                 FALSE)]
               ELSE [ok |-> FALSE, eff |-> NoEff]

\* A cb! whose End arm answers as well.
cb_end_answers(op, result, info, holder) ==
    CASE result = "Item" ->
           LET r == with_info_closure(op, info, holder)
           IN  IF r.ok THEN r.eff ELSE EffThen(r.eff, handle_error(op))
      [] result = "Error" -> handle_error(op)
      [] result = "End" -> Eff(<<Plain("OpComplete", op)>>, <<>>, FALSE)

\* A lookup callback that runs the handler's closure on an error as well.
cb_error_proceeds(op, result, info, holder) ==
    CASE result = "Item" ->
           LET r == with_info_closure(op, info, holder)
           IN  IF r.ok THEN r.eff ELSE EffThen(r.eff, handle_error(op))
      [] result = "Error" ->
           EffThen(handle_error(op), with_info_closure(op, info, holder).eff)
      [] result = "End" -> NoEff

\* cb!: the callback with_<category>_info hands to the lookup primitive.
cb(op, result, info, holder) ==
    CASE result = "Item" ->
           LET r == with_info_closure(op, info, holder)
           IN  IF r.ok THEN r.eff ELSE EffThen(r.eff, handle_error(op))
      [] result = "Error" -> handle_error(op)
      [] result = "End" -> NoEff

\* ListResult<&T>, as the library hands it to a list callback.
ListItem(x) == [t |-> "Item", item |-> x]
ListEnd == [t |-> "End", item |-> [index |-> 0, name |-> ""]]
ListError == [t |-> "Error", item |-> [index |-> 0, name |-> ""]]

\* A list callback that puts each item in front of the ones it has.
get_info_list_cb_prepend(op, result, v) ==
    CASE result.t = "Item" -> [v |-> <<result.item>> \o v, eff |-> NoEff]
      [] result.t = "End" ->
           [v |-> v,
            eff |-> Eff(<<Resp(ListKind(Cat(op.kind)), op.cid, NoIdent, FALSE,
                               <<>>, v)>>,
                        <<>>, FALSE)]
      [] result.t = "Error" -> [v |-> v, eff |-> handle_error(op)]

\* impl_list_call!: one call of the list callback, v being the vector the
\* closure owns: an item is pushed on it, the end of the list sends a copy
\* of it, an error sends one OpError.
get_info_list_cb(op, result, v) ==
    CASE result.t = "Item" -> [v |-> Append(v, result.item), eff |-> NoEff]
      [] result.t = "End" ->
           [v |-> v,
            eff |-> Eff(<<Resp(ListKind(Cat(op.kind)), op.cid, NoIdent, FALSE,
                               <<>>, v)>>,
                        <<>>, FALSE)]
      [] result.t = "Error" -> [v |-> v, eff |-> handle_error(op)]

\* The calls the library makes of one list callback, in order, starting
\* from the vector v.
RECURSIVE get_info_list_calls(_, _, _)
get_info_list_calls(op, results, v) ==
    IF results = <<>> THEN NoEff
    ELSE LET r == get_info_list_cb(op, Head(results), v)
         IN  EffThen(r.eff, get_info_list_calls(op, Tail(results), r.v))

\* get_server_info, get_default_sink: the closure handed to with_server_info.
with_server_info_closure(op, s) ==
    IF Act(op.kind) = "ServerInfo"
    THEN Eff(<<Plain("ServerInfo", op)>>, <<>>, FALSE)
    ELSE Eff(<<Resp("DefaultSink", op.cid, Name(s.def), FALSE, <<>>, <<>>)>>,
             <<>>, FALSE)

\* The callbacks the library runs for one completed operation, given the
\* server's reply: a lookup delivers its item and then the end of the list,
\* or an error; a list delivers every item and then the end, or an error.
ReplyEffect(op, reply, s, holder) ==
    CASE op.prim = "get_server_info" -> with_server_info_closure(op, s)
      [] op.prim = "get_info" ->
           IF reply.ok
           THEN EffThen(cb(op, "Item", s.obj[Cat(op.kind)], holder),
                        cb(op, "End", s.obj[Cat(op.kind)], holder))
           ELSE cb(op, "Error", s.obj[Cat(op.kind)], holder)
      [] op.prim = "get_info_list" ->
           IF reply.ok
           THEN get_info_list_calls(
                    op,
                    [i \in 1..Len(reply.items) |-> ListItem(reply.items[i])]
                        \o <<ListEnd>>,
                    <<>>)
           ELSE get_info_list_calls(op, <<ListError>>, <<>>)
      [] OTHER -> success_cb(op, reply.ok)

\* -------------------------------------------------------------------- state

VARIABLES
    wpc,          \* where the worker thread is in start / init / start_loop
    cur,          \* the command start_loop holds
    exitReason,   \* StopReason, or the error the worker thread panicked with
    lock,         \* holder of the threaded mainloop's lock
    loopRunning,  \* the mainloop thread is started and not stopped
    ctxState,     \* Context::get_state()
    stateCb,      \* the state callback of init is installed
    signalled,    \* mainloop.signal() was called for the waiting worker
    cbRun,        \* the callback the mainloop thread is running
    pending,      \* operations in flight, in the order they were issued
    srv,          \* the audio server
    subCb,        \* the subscribe callback: the event sink it pushes to, or 0
    nNotif,       \* change notifications delivered so far
    evQ,          \* events pushed to event sinks
    evAlive,      \* event sinks whose receiver is still held
    cmdQ,         \* request channel
    cmdTxAlive,   \* the caller still holds the request sender
    respQ,        \* response channel
    respRxAlive,  \* the caller still holds the response receiver
    mode,         \* the caller: the facade, or a user of the raw channel pair
    nSent,        \* commands sent so far
    fpc,          \* where the facade is in its current operation
    fop,          \* the facade's current operation
    fres,         \* what the facade's last operation returned
    fsent,        \* the command the facade sent last
    fgot,         \* the command whose response the facade received last
    cstat,        \* per command: how far its processing got
    respCount,    \* per command: responses sent for it
    nDisc,        \* Disconnected responses sent
    everReady,    \* the connection has been ready at some time
    fnIn,         \* the arguments a function of the volume model is given
    fnOut         \* what that function returned

vars ==
    <<wpc, cur, exitReason, lock, loopRunning, ctxState, stateCb, signalled,
      cbRun, pending, srv, subCb, nNotif, evQ, evAlive, cmdQ, cmdTxAlive,
      respQ, respRxAlive, mode, nSent, fpc, fop, fres, fsent, fgot, cstat,
      respCount, nDisc, everReady, fnIn, fnOut>>

workerVars == <<wpc, cur, exitReason>>
loopVars == <<lock, loopRunning, ctxState, stateCb, signalled, cbRun, pending>>
srvVars == <<srv, subCb, nNotif, evQ, evAlive>>
chanVars == <<cmdQ, cmdTxAlive, respQ, respRxAlive>>
callerVars == <<mode, nSent, fpc, fop, fres, fsent, fgot>>
ghostVars == <<cstat, respCount, nDisc, everReady>>
pureVars == <<fnIn, fnOut>>

Cids == 1..(MaxCmds + 1)

NoNote == [fac |-> "", oper |-> "", index |-> 0]
NoCb == [ev |-> "none", op |-> NoOp, accept |-> FALSE, to |-> "", note |-> NoNote]

NoFop == [name |-> "", id |-> NoIdent, mute |-> FALSE, spec |-> NoSpec]

\* No function of the volume model is being applied.
NoIn == [f |-> "none", current |-> <<>>, spec |-> NoSpec, text |-> <<>>,
         vol |-> Value(0), raw |-> 0, kind |-> "", results |-> <<>>]
NoOut == [done |-> FALSE, panic |-> FALSE, cv |-> <<>>, ok |-> FALSE,
          unit |-> "", num |-> 0, den |-> 1, msg |-> "", resp |-> <<>>,
          raw32 |-> U32(0, 0)]

\* PulseAudioLoop::start up to thread::spawn: both channels exist, the
\* worker thread has not run yet.
Init ==
    /\ wpc = "init"
    /\ cur = NoCmd
    /\ exitReason = "none"
    /\ lock = "free"
    /\ loopRunning = FALSE
    /\ ctxState = "unconnected"
    /\ stateCb = FALSE
    /\ signalled = FALSE
    /\ cbRun = NoCb
    /\ pending = <<>>
    /\ srv = InitServer
    /\ subCb = 0
    /\ nNotif = 0
    /\ evQ = <<>>
    /\ evAlive = {}
    /\ cmdQ = <<>>
    /\ cmdTxAlive = TRUE
    /\ respQ = <<>>
    /\ respRxAlive = TRUE
    /\ mode \in {"facade", "raw"}
    /\ nSent = 0
    /\ fpc = "idle"
    /\ fop = NoFop
    /\ fres = "none"
    /\ fsent = NoCmd
    /\ fgot = 0
    /\ cstat = [c \in Cids |-> "unsent"]
    /\ respCount = [c \in Cids |-> 0]
    /\ nDisc = 0
    /\ everReady = FALSE
    /\ fnIn = NoIn
    /\ fnOut = NoOut

\* The worker thread has ended: its command receiver and every response
\* sender it owned are dropped.
WorkerGone == wpc \in {"done", "panicked"}

\* Sender::send(..).ignore(): queued while the receiver is held.
Send(q, rs) == IF respRxAlive THEN q \o rs ELSE q

\* respCount after the responses rs were sent.
Counted(rc, rs) ==
    [c \in Cids |-> rc[c] + Cardinality({i \in 1..Len(rs) : rs[i].cid = c})]

\* ------------------------------------------------------------ worker thread

\* init up to mainloop.start(): proplist, mainloop and context are created,
\* the state callback is set, connect() is called, the lock is taken and the
\* mainloop thread started. Any of the fallible steps may fail, which the
\* worker thread turns into a panic: a step before the lock is taken, or
\* mainloop.start() itself, whose error is returned with the lock held.
init_connect ==
    /\ wpc = "init"
    /\ \E r \in {"started", "failed", "start_failed"} :
         CASE r = "started" ->
                /\ wpc' = "init_check"
                /\ exitReason' = exitReason
                /\ stateCb' = TRUE
                /\ ctxState' = "connecting"
                /\ lock' = "worker"
                /\ loopRunning' = TRUE
           [] r = "failed" ->
                /\ wpc' = "panicked"
                /\ exitReason' = "init_failed"
                /\ UNCHANGED <<stateCb, ctxState, lock, loopRunning>>
           [] r = "start_failed" ->
                /\ wpc' = "panicked"
                /\ exitReason' = "init_failed"
                /\ stateCb' = TRUE
                /\ ctxState' = "connecting"
                /\ lock' = "worker"
                /\ UNCHANGED loopRunning
    /\ UNCHANGED <<cur, signalled, cbRun, pending>>
    /\ UNCHANGED <<srvVars, chanVars, callerVars, ghostVars>>
    /\ UNCHANGED pureVars

\* An init that goes on to the commands without waiting for the context.
init_wait_skipped ==
    /\ wpc = "init_check"
    /\ lock = "worker"
    /\ IF ctxState = "failed"
       THEN /\ lock' = "free"
            /\ loopRunning' = FALSE
            /\ wpc' = "panicked"
            /\ exitReason' = "init_failed"
            /\ UNCHANGED stateCb
       ELSE /\ stateCb' = FALSE
            /\ lock' = "free"
            /\ wpc' = "recv"
            /\ UNCHANGED <<exitReason, loopRunning>>
    /\ UNCHANGED <<cur, ctxState, signalled, cbRun, pending>>
    /\ UNCHANGED <<srvVars, chanVars, callerVars, ghostVars>>
    /\ UNCHANGED pureVars

\* An init whose wait ends on any state the connect attempt ends in.
init_wait_any ==
    /\ wpc = "init_check"
    /\ lock = "worker"
    /\ lock' = "free"
    /\ IF ctxState \in {"ready", "failed"}
       THEN /\ stateCb' = FALSE
            /\ wpc' = "recv"
       ELSE /\ wpc' = "init_wait"
            /\ UNCHANGED stateCb
    /\ UNCHANGED <<cur, exitReason, loopRunning, ctxState, signalled, cbRun, pending>>
    /\ UNCHANGED <<srvVars, chanVars, callerVars, ghostVars>>
    /\ UNCHANGED pureVars

\* init: one turn of the loop that waits for the context to be ready.
init_wait_ready ==
    /\ wpc = "init_check"
    /\ lock = "worker"
    /\ CASE ctxState = "ready" ->
              /\ stateCb' = FALSE
              /\ lock' = "free"
              /\ wpc' = "recv"
              /\ UNCHANGED <<exitReason, loopRunning>>
         [] ctxState = "failed" ->
              /\ lock' = "free"
              /\ loopRunning' = FALSE
              /\ wpc' = "panicked"
              /\ exitReason' = "init_failed"
              /\ UNCHANGED stateCb
         [] OTHER ->
              /\ lock' = "free"
              /\ wpc' = "init_wait"
              /\ UNCHANGED <<exitReason, loopRunning, stateCb>>
    /\ UNCHANGED <<cur, ctxState, signalled, cbRun, pending>>
    /\ UNCHANGED <<srvVars, chanVars, callerVars, ghostVars>>
    /\ UNCHANGED pureVars

\* init: mainloop.wait() returns once signalled, holding the lock again.
init_wake ==
    /\ wpc = "init_wait"
    /\ signalled
    /\ lock = "free"
    /\ lock' = "worker"
    /\ signalled' = FALSE
    /\ wpc' = "init_check"
    /\ UNCHANGED <<cur, exitReason, loopRunning, ctxState, stateCb, cbRun, pending>>
    /\ UNCHANGED <<srvVars, chanVars, callerVars, ghostVars>>
    /\ UNCHANGED pureVars

\* A receive that reports the closed channel before the queued commands.
start_loop_recv_eager ==
    /\ wpc = "recv"
    /\ IF ~cmdTxAlive
       THEN /\ wpc' = "stop"
            /\ exitReason' = "CommandSenderDropped"
            /\ UNCHANGED <<cur, cmdQ, cstat>>
       ELSE /\ cmdQ # <<>>
            /\ cur' = Head(cmdQ)
            /\ cmdQ' = Tail(cmdQ)
            /\ wpc' = "lock"
            /\ cstat' = [cstat EXCEPT ![Head(cmdQ).cid] = "taken"]
            /\ UNCHANGED exitReason
    /\ UNCHANGED <<cmdTxAlive, respQ, respRxAlive, respCount, nDisc, everReady>>
    /\ UNCHANGED <<loopVars, srvVars, callerVars>>
    /\ UNCHANGED pureVars

\* start_loop: self.rx.recv()
start_loop_recv ==
    /\ wpc = "recv"
    /\ IF cmdQ # <<>>
       THEN /\ cur' = Head(cmdQ)
            /\ cmdQ' = Tail(cmdQ)
            /\ wpc' = "lock"
            /\ cstat' = [cstat EXCEPT ![Head(cmdQ).cid] = "taken"]
            /\ UNCHANGED exitReason
       ELSE /\ ~cmdTxAlive
            /\ wpc' = "stop"
            /\ exitReason' = "CommandSenderDropped"
            /\ UNCHANGED <<cur, cmdQ, cstat>>
    /\ UNCHANGED <<cmdTxAlive, respQ, respRxAlive, respCount, nDisc, everReady>>
    /\ UNCHANGED <<loopVars, srvVars, callerVars>>
    /\ UNCHANGED pureVars

\* A worker that goes on to the connection without taking the lock.
start_loop_lock_skipped ==
    /\ wpc = "lock"
    /\ wpc' = "check"
    /\ UNCHANGED <<cur, exitReason, loopVars>>
    /\ UNCHANGED <<srvVars, chanVars, callerVars, ghostVars>>
    /\ UNCHANGED pureVars

\* start_loop: self.mainloop.borrow_mut().lock()
start_loop_lock ==
    /\ wpc = "lock"
    /\ lock = "free"
    /\ lock' = "worker"
    /\ wpc' = "check"
    /\ UNCHANGED <<cur, exitReason, loopRunning, ctxState, stateCb, signalled,
                   cbRun, pending>>
    /\ UNCHANGED <<srvVars, chanVars, callerVars, ghostVars>>
    /\ UNCHANGED pureVars

\* A worker that dispatches without looking at the connection state.
start_loop_check_skipped ==
    /\ wpc = "check"
    /\ wpc' = "dispatch"
    /\ UNCHANGED <<cur, exitReason, loopVars>>
    /\ UNCHANGED <<srvVars, chanVars, callerVars, ghostVars>>
    /\ UNCHANGED pureVars

\* start_loop: verify connection state. Not ready: unlock and return Err,
\* which start turns into a panic of the worker thread; the unwinding drops
\* the PulseAudioLoop and with it the mainloop.
start_loop_check ==
    /\ wpc = "check"
    /\ IF ctxState = "ready"
       THEN /\ wpc' = "dispatch"
            /\ UNCHANGED <<exitReason, lock, loopRunning>>
       ELSE /\ lock' = "free"
            /\ loopRunning' = FALSE
            /\ wpc' = "panicked"
            /\ exitReason' = "not_ready"
    /\ UNCHANGED <<cur, ctxState, stateCb, signalled, cbRun, pending>>
    /\ UNCHANGED <<srvVars, chanVars, callerVars, ghostVars>>
    /\ UNCHANGED pureVars

\* Handlers of which set-default looks its object up for a name as well.
FirstPrim_always_lookup(cmd) ==
    LET act == Act(cmd.kind)
    IN  CASE act \in {"ServerInfo", "DefaultSink"} -> "get_server_info"
          [] act \in {"GetInfo", "GetMute", "GetVolume", "SetVolume",
                      "SetDefault"} -> "get_info"
          [] act = "SetMute" -> "set_mute"
          [] act = "Kill" -> "kill"
          [] act = "List" -> "get_info_list"
          [] act = "Subscribe" -> "subscribe"

\* The primitive a handler of start_loop's match issues first.
FirstPrim(cmd) ==
    LET act == Act(cmd.kind)
    IN  CASE act \in {"ServerInfo", "DefaultSink"} -> "get_server_info"
          [] act \in {"GetInfo", "GetMute", "GetVolume", "SetVolume"} -> "get_info"
          [] act = "SetDefault" ->
               IF cmd.id.t = "Name" THEN "set_default" ELSE "get_info"
          [] act = "SetMute" -> "set_mute"
          [] act = "Kill" -> "kill"
          [] act = "List" -> "get_info_list"
          [] act = "Subscribe" -> "subscribe"

\* Handlers that address the object by the index the server knows it by.
Dispatch_by_index(cmd, holder) ==
    Op(cmd, FirstPrim(cmd), Index(ObjIndex), <<>>, 1, holder)

\* The handler of one command: the operation it starts on the connection.
Dispatch(cmd, holder) == Op(cmd, FirstPrim(cmd), cmd.id, <<>>, 1, holder)

\* A setup_subscribe that leaves an installed forwarder in place.
start_loop_dispatch_keeps_first ==
    /\ wpc = "dispatch"
    /\ IF cur.kind = "Disconnect"
       THEN /\ lock' = "free"
            /\ wpc' = "stop"
            /\ exitReason' = "ExplicitDisconnect"
            /\ UNCHANGED <<pending, subCb, cstat>>
       ELSE /\ pending' = Append(pending, Dispatch(cur, lock))
            /\ subCb' = IF cur.kind = "Subscribe" /\ subCb = 0 THEN cur.cid
                        ELSE subCb
            /\ cstat' = [cstat EXCEPT ![cur.cid] = "inflight"]
            /\ wpc' = "unlock"
            /\ UNCHANGED <<lock, exitReason>>
    /\ UNCHANGED <<cur, loopRunning, ctxState, stateCb, signalled, cbRun>>
    /\ UNCHANGED <<srv, nNotif, evQ, evAlive, respCount, nDisc, everReady>>
    /\ UNCHANGED <<chanVars, callerVars>>
    /\ UNCHANGED pureVars

\* start_loop: match cmd. Disconnect unlocks and leaves the loop; Subscribe
\* (setup_subscribe) also replaces the subscribe callback; every other arm
\* issues the handler's primitive.
start_loop_dispatch ==
    /\ wpc = "dispatch"
    /\ IF cur.kind = "Disconnect"
       THEN /\ lock' = "free"
            /\ wpc' = "stop"
            /\ exitReason' = "ExplicitDisconnect"
            /\ UNCHANGED <<pending, subCb, cstat>>
       ELSE /\ pending' = Append(pending, Dispatch(cur, lock))
            /\ subCb' = IF cur.kind = "Subscribe" THEN cur.cid ELSE subCb
            /\ cstat' = [cstat EXCEPT ![cur.cid] = "inflight"]
            /\ wpc' = "unlock"
            /\ UNCHANGED <<lock, exitReason>>
    /\ UNCHANGED <<cur, loopRunning, ctxState, stateCb, signalled, cbRun>>
    /\ UNCHANGED <<srv, nNotif, evQ, evAlive, respCount, nDisc, everReady>>
    /\ UNCHANGED <<chanVars, callerVars>>
    /\ UNCHANGED pureVars

\* An iteration whose end takes the installed forwarder with it.
start_loop_unlock_uninstalls ==
    /\ wpc = "unlock"
    /\ lock' = "free"
    /\ wpc' = "recv"
    /\ cur' = NoCmd
    /\ subCb' = 0
    /\ UNCHANGED <<exitReason, loopRunning, ctxState, stateCb, signalled,
                   cbRun, pending>>
    /\ UNCHANGED <<srv, nNotif, evQ, evAlive>>
    /\ UNCHANGED <<chanVars, callerVars, ghostVars>>
    /\ UNCHANGED pureVars

\* start_loop: resume mainloop; the iteration ends and cmd with it.
start_loop_unlock ==
    /\ wpc = "unlock"
    /\ lock' = "free"
    /\ wpc' = "recv"
    /\ cur' = NoCmd
    /\ UNCHANGED <<exitReason, loopRunning, ctxState, stateCb, signalled,
                   cbRun, pending>>
    /\ UNCHANGED <<srvVars, chanVars, callerVars, ghostVars>>
    /\ UNCHANGED pureVars

\* A worker that leaves the loop without stopping the mainloop thread.
mainloop_stop_skipped ==
    /\ wpc = "stop"
    /\ wpc' = "send_disconnected"
    /\ UNCHANGED <<cur, exitReason, loopVars>>
    /\ UNCHANGED <<srvVars, chanVars, callerVars, ghostVars>>
    /\ UNCHANGED pureVars

\* mainloop.stop(): returns once the mainloop thread has finished the
\* callback it is running and ended.
mainloop_stop ==
    /\ wpc = "stop"
    /\ cbRun.ev = "none"
    /\ loopRunning' = FALSE
    /\ wpc' = "send_disconnected"
    /\ UNCHANGED <<cur, exitReason, lock, ctxState, stateCb, signalled, cbRun,
                   pending>>
    /\ UNCHANGED <<srvVars, chanVars, callerVars, ghostVars>>
    /\ UNCHANGED pureVars

\* PAResponse::Disconnected, as the reply to the Disconnect the worker holds
\* when it stops for one, and to no command otherwise.
Disconnected ==
    Resp("Disconnected", IF exitReason = "ExplicitDisconnect" THEN cur.cid ELSE 0,
         NoIdent, FALSE, <<>>, <<>>)

\* A worker that signals its end twice.
send_disconnected_twice ==
    /\ wpc = "send_disconnected"
    /\ respQ' = Send(respQ, <<Disconnected, Disconnected>>)
    /\ nDisc' = nDisc + 2
    /\ wpc' = "exiting"
    /\ UNCHANGED <<cur, exitReason, cmdQ, cmdTxAlive, respRxAlive, cstat, respCount,
                   everReady>>
    /\ UNCHANGED <<loopVars, srvVars, callerVars>>
    /\ UNCHANGED pureVars

\* start: response_tx.send(PAResponse::Disconnected).ignore()
send_disconnected ==
    /\ wpc = "send_disconnected"
    /\ respQ' = Send(respQ, <<Disconnected>>)
    /\ nDisc' = nDisc + 1
    /\ wpc' = "exiting"
    /\ UNCHANGED <<cur, exitReason, cmdQ, cmdTxAlive, respRxAlive, cstat, respCount,
                   everReady>>
    /\ UNCHANGED <<loopVars, srvVars, callerVars>>
    /\ UNCHANGED pureVars

\* The worker thread's closure returns: the PulseAudioLoop is dropped.
thread_exit ==
    /\ wpc = "exiting"
    /\ wpc' = "done"
    /\ UNCHANGED <<cur, exitReason>>
    /\ UNCHANGED <<loopVars, srvVars, chanVars, callerVars, ghostVars>>
    /\ UNCHANGED pureVars

\* ----------------------------------------------------------- mainloop thread

\* The notifications the server may push to a subscribed client.
Notes ==
    {[fac |-> "sink", oper |-> "Changed", index |-> 0],
     [fac |-> "sink_input", oper |-> "New", index |-> 1],
     [fac |-> "source_output", oper |-> "Removed", index |-> 0]}

\* A mainloop thread that runs callbacks whoever holds the lock.
LoopIdleUnlocked == loopRunning /\ cbRun.ev = "none"

\* The mainloop thread is between callbacks and can take the lock.
LoopIdle == loopRunning /\ lock = "free" /\ cbRun.ev = "none"

\* A mainloop thread that runs the callbacks of the newest operation first.
loop_begin_reply_newest ==
    /\ LoopIdle
    /\ ctxState = "ready"
    /\ pending # <<>>
    /\ \E accept \in BOOLEAN :
         cbRun' = [NoCb EXCEPT !.ev = "reply", !.op = pending[Len(pending)],
                               !.accept = accept]
    /\ pending' = SubSeq(pending, 1, Len(pending) - 1)
    /\ lock' = "loop"
    /\ UNCHANGED <<loopRunning, ctxState, stateCb, signalled>>
    /\ UNCHANGED <<workerVars, srvVars, chanVars, callerVars, ghostVars>>
    /\ UNCHANGED pureVars

\* The mainloop thread takes the lock to run the callbacks of the reply to
\* the oldest operation in flight.
loop_begin_reply ==
    /\ LoopIdle
    /\ ctxState = "ready"
    /\ pending # <<>>
    /\ \E accept \in BOOLEAN :
         cbRun' = [NoCb EXCEPT !.ev = "reply", !.op = Head(pending),
                               !.accept = accept]
    /\ pending' = Tail(pending)
    /\ lock' = "loop"
    /\ UNCHANGED <<loopRunning, ctxState, stateCb, signalled>>
    /\ UNCHANGED <<workerVars, srvVars, chanVars, callerVars, ghostVars>>
    /\ UNCHANGED pureVars

\* The callbacks of that reply run to their end and the lock is released.
loop_end_reply ==
    /\ cbRun.ev = "reply"
    /\ LET op == cbRun.op
           reply == ServerReply(srv, op, cbRun.accept)
           eff == ReplyEffect(op, reply, reply.srv, lock)
       IN  /\ srv' = reply.srv
           /\ respQ' = Send(respQ, eff.resp)
           /\ respCount' = Counted(respCount, eff.resp)
           /\ pending' = pending \o eff.issue
           /\ cstat' = [cstat EXCEPT ![op.cid] =
                          IF eff.issue # <<>> THEN "inflight" ELSE "done"]
    /\ cbRun' = NoCb
    /\ lock' = "free"
    /\ UNCHANGED <<loopRunning, ctxState, stateCb, signalled>>
    /\ UNCHANGED <<subCb, nNotif, evQ, evAlive, cmdQ, cmdTxAlive, respRxAlive, nDisc, everReady>>
    /\ UNCHANGED <<workerVars, callerVars>>
    /\ UNCHANGED pureVars

\* The connection changes state: the connect attempt ends ready or failed,
\* or an established connection is lost.
loop_begin_state ==
    /\ LoopIdle
    /\ \E to \in {"ready", "failed"} :
         /\ \/ ctxState = "connecting"
            \/ ctxState = "ready" /\ to = "failed"
         /\ cbRun' = [NoCb EXCEPT !.ev = "state", !.to = to]
    /\ lock' = "loop"
    /\ UNCHANGED <<loopRunning, ctxState, stateCb, signalled, pending>>
    /\ UNCHANGED <<workerVars, srvVars, chanVars, callerVars, ghostVars>>
    /\ UNCHANGED pureVars

\* The state callback of init signals the waiting worker. A failed
\* connection cancels every operation in flight: their callbacks never run.
loop_end_state ==
    /\ cbRun.ev = "state"
    /\ ctxState' = cbRun.to
    /\ signalled' = (signalled \/ stateCb)
    /\ IF cbRun.to = "failed"
       THEN /\ pending' = <<>>
            /\ cstat' = [c \in Cids |->
                           IF \E i \in 1..Len(pending) : pending[i].cid = c
                           THEN "cancelled" ELSE cstat[c]]
       ELSE UNCHANGED <<pending, cstat>>
    /\ cbRun' = NoCb
    /\ lock' = "free"
    /\ everReady' = (everReady \/ cbRun.to = "ready")
    /\ UNCHANGED <<loopRunning, stateCb, respCount, nDisc>>
    /\ UNCHANGED <<workerVars, srvVars, chanVars, callerVars>>
    /\ UNCHANGED pureVars

\* The server pushes a change notification to a subscribed client.
loop_begin_notify ==
    /\ LoopIdle
    /\ ctxState = "ready"
    /\ srv.mask
    /\ nNotif < MaxNotif
    /\ \E note \in Notes : cbRun' = [NoCb EXCEPT !.ev = "notify", !.note = note]
    /\ nNotif' = nNotif + 1
    /\ lock' = "loop"
    /\ UNCHANGED <<loopRunning, ctxState, stateCb, signalled, pending>>
    /\ UNCHANGED <<srv, subCb, evQ, evAlive>>
    /\ UNCHANGED <<workerVars, chanVars, callerVars, ghostVars>>
    /\ UNCHANGED pureVars

\* A forwarder that reports every notification as a change.
PAEvent_changed(note) ==
    [kind |-> "SubscriptionChanged", fac |-> note.fac, id |-> Index(note.index)]

\* The PAEvent the callback builds from (facility, operation, index).
PAEvent(note) ==
    [kind |-> CASE note.oper = "New" -> "SubscriptionNew"
                [] note.oper = "Removed" -> "SubscriptionRemoved"
                [] note.oper = "Changed" -> "SubscriptionChanged",
     fac |-> note.fac,
     id |-> Index(note.index)]

\* A forwarder that stays installed after a failed push.
subscribe_callback_kept ==
    /\ cbRun.ev = "notify"
    /\ IF subCb # 0 /\ subCb \in evAlive
       THEN evQ' = Append(evQ, [sink |-> subCb, ev |-> PAEvent(cbRun.note)])
       ELSE UNCHANGED evQ
    /\ cbRun' = NoCb
    /\ lock' = "free"
    /\ UNCHANGED <<loopRunning, ctxState, stateCb, signalled, pending>>
    /\ UNCHANGED <<srv, subCb, nNotif, evAlive>>
    /\ UNCHANGED <<workerVars, chanVars, callerVars, ghostVars>>
    /\ UNCHANGED pureVars

\* setup_subscribe's callback: push the event to the sink; a failed push
\* removes the callback.
subscribe_callback ==
    /\ cbRun.ev = "notify"
    /\ IF subCb = 0
       THEN UNCHANGED <<evQ, subCb>>
       ELSE IF subCb \in evAlive
       THEN /\ evQ' = Append(evQ, [sink |-> subCb, ev |-> PAEvent(cbRun.note)])
            /\ UNCHANGED subCb
       ELSE /\ subCb' = 0
            /\ UNCHANGED evQ
    /\ cbRun' = NoCb
    /\ lock' = "free"
    /\ UNCHANGED <<loopRunning, ctxState, stateCb, signalled, pending>>
    /\ UNCHANGED <<srv, nNotif, evAlive>>
    /\ UNCHANGED <<workerVars, chanVars, callerVars, ghostVars>>
    /\ UNCHANGED pureVars

\* ------------------------------------------------------------------ callers

\* The arguments callers use: the object by index, by name, and a name no
\* object has; a broadcast volume, a list that fits the two channels and one
\* that does not.
Ids == {Index(ObjIndex), Name(ObjName), Name("b")}
Specs ==
    {All(Percentage(50)), Channels(<<Value(1), Value(2)>>), Channels(<<Value(1)>>)}

\* What a user of the raw channel pair sends.
RawCmds ==
    {Cmd(0, "GetSinkMute", Index(ObjIndex), FALSE, NoSpec),
     Cmd(0, "SetSinkVolume", Index(ObjIndex), FALSE, All(Percentage(50))),
     Cmd(0, "SetSinkVolume", Name(ObjName), FALSE, Channels(<<Value(1)>>)),
     Cmd(0, "KillSinkInput", Index(ObjIndex), FALSE, NoSpec),
     Cmd(0, "GetSinkInputInfoList", NoIdent, FALSE, NoSpec),
     Cmd(0, "Subscribe", NoIdent, FALSE, NoSpec),
     Cmd(0, "Disconnect", NoIdent, FALSE, NoSpec)}

\* Sender<PACommand>::send: the command is queued with the next number.
Queued(c) == Append(cmdQ, [c EXCEPT !.cid = nSent + 1])

raw_send ==
    /\ mode = "raw"
    /\ cmdTxAlive
    /\ ~WorkerGone
    /\ nSent < MaxCmds
    /\ \E c \in RawCmds :
         /\ cmdQ' = Queued(c)
         /\ evAlive' = IF c.kind = "Subscribe" THEN evAlive \cup {nSent + 1}
                       ELSE evAlive
    /\ nSent' = nSent + 1
    /\ cstat' = [cstat EXCEPT ![nSent + 1] = "queued"]
    /\ UNCHANGED <<cmdTxAlive, respQ, respRxAlive, respCount, nDisc, everReady>>
    /\ UNCHANGED <<srv, subCb, nNotif, evQ>>
    /\ UNCHANGED <<mode, fpc, fop, fres, fsent, fgot>>
    /\ UNCHANGED <<workerVars, loopVars>>
    /\ UNCHANGED pureVars

raw_recv ==
    /\ mode = "raw"
    /\ respRxAlive
    /\ respQ # <<>>
    /\ respQ' = Tail(respQ)
    /\ UNCHANGED <<cmdQ, cmdTxAlive, respRxAlive>>
    /\ UNCHANGED <<workerVars, loopVars, srvVars, callerVars, ghostVars>>
    /\ UNCHANGED pureVars

raw_drop_sender ==
    /\ mode = "raw"
    /\ cmdTxAlive
    /\ cmdTxAlive' = FALSE
    /\ UNCHANGED <<cmdQ, respQ, respRxAlive>>
    /\ UNCHANGED <<workerVars, loopVars, srvVars, callerVars, ghostVars>>
    /\ UNCHANGED pureVars

raw_drop_receiver ==
    /\ mode = "raw"
    /\ respRxAlive
    /\ respRxAlive' = FALSE
    /\ respQ' = <<>>
    /\ UNCHANGED <<cmdQ, cmdTxAlive>>
    /\ UNCHANGED <<workerVars, loopVars, srvVars, callerVars, ghostVars>>
    /\ UNCHANGED pureVars

\* The holder of an event receiver drops it.
drop_event_receiver ==
    /\ \E snk \in evAlive : evAlive' = evAlive \ {snk}
    /\ UNCHANGED <<srv, subCb, nNotif, evQ>>
    /\ UNCHANGED <<workerVars, loopVars, chanVars, callerVars, ghostVars>>
    /\ UNCHANGED pureVars

\* PulseAudio's operations: the command each sends, the response variant it
\* expects (or operation_result), and for the index-only categories the list
\* operation its find_<category>_by_name uses.
FacadeTable ==
    [get_server_info |->
        [kind |-> "GetServerInfo", expect |-> "ServerInfo", find |-> ""],
     get_default_sink |->
        [kind |-> "GetDefaultSink", expect |-> "DefaultSink", find |-> ""],
     set_default_sink |->
        [kind |-> "SetDefaultSink", expect |-> "operation_result", find |-> ""],
     subscribe |->
        [kind |-> "Subscribe", expect |-> "operation_result", find |-> ""],
     get_sink_input_info_list |->
        [kind |-> "GetSinkInputInfoList", expect |-> "SinkInputInfoList", find |-> ""],
     get_source_output_info_list |->
        [kind |-> "GetSourceOutputInfoList", expect |-> "SourceOutputInfoList",
         find |-> ""],
     get_sink_mute |->
        [kind |-> "GetSinkMute", expect |-> "Mute", find |-> ""],
     set_sink_mute |->
        [kind |-> "SetSinkMute", expect |-> "operation_result", find |-> ""],
     set_sink_volume |->
        [kind |-> "SetSinkVolume", expect |-> "operation_result", find |-> ""],
     get_sink_input_mute |->
        [kind |-> "GetSinkInputMute", expect |-> "Mute",
         find |-> "get_sink_input_info_list"],
     get_sink_input_volume |->
        [kind |-> "GetSinkInputVolume", expect |-> "Volume",
         find |-> "get_sink_input_info_list"],
     set_sink_input_mute |->
        [kind |-> "SetSinkInputMute", expect |-> "operation_result",
         find |-> "get_sink_input_info_list"],
     set_sink_input_volume |->
        [kind |-> "SetSinkInputVolume", expect |-> "operation_result",
         find |-> "get_sink_input_info_list"],
     kill_sink_input |->
        [kind |-> "KillSinkInput", expect |-> "operation_result",
         find |-> "get_sink_input_info_list"],
     get_source_output_mute |->
        [kind |-> "GetSinkInputMute", expect |-> "Mute",
         find |-> "get_source_output_info_list"],
     get_source_output_volume |->
        [kind |-> "GetSinkInputVolume", expect |-> "Volume",
         find |-> "get_source_output_info_list"],
     set_source_output_mute |->
        [kind |-> "SetSinkInputMute", expect |-> "operation_result",
         find |-> "get_source_output_info_list"],
     set_source_output_volume |->
        [kind |-> "SetSinkInputVolume", expect |-> "operation_result",
         find |-> "get_source_output_info_list"],
     kill_source_output |->
        [kind |-> "KillSinkInput", expect |-> "operation_result",
         find |-> "get_source_output_info_list"]]

Fop(name, id, mute, spec) == [name |-> name, id |-> id, mute |-> mute, spec |-> spec]

\* The operations callers invoke on the facade, with their arguments.
FacadeOps ==
    {Fop(n, NoIdent, FALSE, NoSpec) :
        n \in {"get_server_info", "get_default_sink", "subscribe",
               "get_sink_input_info_list"}}
    \cup {Fop(n, id, FALSE, NoSpec) :
            n \in {"set_default_sink", "get_sink_mute", "get_sink_input_mute",
                   "get_sink_input_volume", "kill_sink_input",
                   "get_source_output_mute", "get_source_output_volume",
                   "kill_source_output"},
            id \in Ids}
    \cup {Fop(n, id, TRUE, NoSpec) :
            n \in {"set_sink_mute", "set_sink_input_mute", "set_source_output_mute"},
            id \in Ids}
    \cup {Fop(n, id, FALSE, sp) :
            n \in {"set_sink_volume", "set_sink_input_volume",
                   "set_source_output_volume"},
            id \in Ids, sp \in Specs}

\* The command an operation sends for the object id.
FacadeCommand(op, id) == Cmd(0, FacadeTable[op.name].kind, id, op.mute, op.spec)

\* A by-name call on an index-only category goes through find_..._by_name.
ByName(op) == FacadeTable[op.name].find # "" /\ op.id.t = "Name"

\* The command an operation sends first.
FirstCommand(op) ==
    IF ByName(op)
    THEN Cmd(0, FacadeTable[FacadeTable[op.name].find].kind, NoIdent, FALSE, NoSpec)
    ELSE FacadeCommand(op, op.id)

\* A match that takes OpError for the expected variant.
assume_variant_lenient(expect, r) ==
    IF r.kind \in {expect, "OpComplete", "OpError"} THEN "Ok" ELSE "ErrUnexpected"

\* assume_variant! and operation_result: what the operation returns for the
\* response it received.
assume_variant(expect, r) ==
    IF expect = "operation_result"
    THEN CASE r.kind = "OpComplete" -> "Ok"
           [] r.kind = "OpError" -> "OkFailure"
           [] OTHER -> "ErrUnexpected"
    ELSE CASE r.kind = expect -> "Ok"
           [] r.kind = "OpError" -> "ErrFailure"
           [] OTHER -> "ErrUnexpected"

\* An operation that returns right after its send.
NoAwait(op) == "idle"

\* After its send an operation blocks in self.rx.recv(): in
\* find_<category>_by_name for a by-name call, in its own body otherwise.
Awaits(op) == IF ByName(op) THEN "find" ELSE "wait"

\* A facade operation starts: self.tx.send(..)?
facade_call ==
    /\ mode = "facade"
    /\ fpc = "idle"
    /\ \E op \in FacadeOps :
         /\ nSent + (IF ByName(op) THEN 2 ELSE 1) <= MaxCmds
         /\ fop' = op
         /\ IF WorkerGone
            THEN /\ fres' = "ErrSend"
                 /\ UNCHANGED <<fpc, fsent, cmdQ, nSent, cstat, evAlive>>
            ELSE /\ fres' = "none"
                 /\ fpc' = Awaits(op)
                 /\ cmdQ' = Queued(FirstCommand(op))
                 /\ fsent' = [FirstCommand(op) EXCEPT !.cid = nSent + 1]
                 /\ nSent' = nSent + 1
                 /\ cstat' = [cstat EXCEPT ![nSent + 1] = "queued"]
                 /\ evAlive' = IF op.name = "subscribe"
                               THEN evAlive \cup {nSent + 1} ELSE evAlive
    /\ UNCHANGED <<mode, fgot, cmdTxAlive, respQ, respRxAlive, respCount, nDisc, everReady>>
    /\ UNCHANGED <<srv, subCb, nNotif, evQ>>
    /\ UNCHANGED <<workerVars, loopVars>>
    /\ UNCHANGED pureVars

\* find_<category>_by_name: the list arrives; the object found, the
\* operation calls itself with its index.
facade_find_recv ==
    /\ fpc = "find"
    /\ IF respQ # <<>>
       THEN LET r == Head(respQ)
                res == assume_variant(FacadeTable[FacadeTable[fop.name].find].expect, r)
                hits == {i \in 1..Len(r.items) : r.items[i].name = fop.id.name}
            IN  /\ respQ' = Tail(respQ)
                /\ fgot' = r.cid
                /\ IF res # "Ok"
                   THEN /\ fres' = res
                        /\ fpc' = "idle"
                        /\ UNCHANGED <<cmdQ, fsent, nSent, cstat>>
                   ELSE IF hits = {}
                   THEN /\ fres' = "ErrNotFound"
                        /\ fpc' = "idle"
                        /\ UNCHANGED <<cmdQ, fsent, nSent, cstat>>
                   ELSE IF WorkerGone
                   THEN /\ fres' = "ErrSend"
                        /\ fpc' = "idle"
                        /\ UNCHANGED <<cmdQ, fsent, nSent, cstat>>
                   ELSE LET i == CHOOSE i \in hits : \A j \in hits : i <= j
                            c == FacadeCommand(fop, Index(r.items[i].index))
                        IN  /\ cmdQ' = Queued(c)
                            /\ fsent' = [c EXCEPT !.cid = nSent + 1]
                            /\ nSent' = nSent + 1
                            /\ cstat' = [cstat EXCEPT ![nSent + 1] = "queued"]
                            /\ fpc' = "wait"
                            /\ UNCHANGED fres
       ELSE /\ WorkerGone
            /\ fres' = "ErrRecv"
            /\ fpc' = "idle"
            /\ UNCHANGED <<respQ, fgot, cmdQ, fsent, nSent, cstat>>
    /\ UNCHANGED <<mode, fop, cmdTxAlive, respRxAlive, respCount, nDisc, everReady>>
    /\ UNCHANGED <<workerVars, loopVars, srvVars>>
    /\ UNCHANGED pureVars

\* self.rx.recv()? and the match on the response.
facade_recv ==
    /\ fpc = "wait"
    /\ IF respQ # <<>>
       THEN /\ respQ' = Tail(respQ)
            /\ fgot' = Head(respQ).cid
            /\ fres' = assume_variant(FacadeTable[fop.name].expect, Head(respQ))
       ELSE /\ WorkerGone
            /\ fres' = "ErrRecv"
            /\ UNCHANGED <<respQ, fgot>>
    /\ fpc' = "idle"
    /\ UNCHANGED <<mode, nSent, fop, fsent, cmdQ, cmdTxAlive, respRxAlive>>
    /\ UNCHANGED <<workerVars, loopVars, srvVars, ghostVars>>
    /\ UNCHANGED pureVars

\* Drop for PulseAudio: send Disconnect and unwrap the result.
facade_drop ==
    /\ mode = "facade"
    /\ fpc = "idle"
    /\ IF WorkerGone
       THEN /\ fpc' = "panicked"
            /\ cmdTxAlive' = FALSE
            /\ respRxAlive' = FALSE
            /\ UNCHANGED <<cmdQ, fsent, nSent, cstat>>
       ELSE /\ fpc' = "drop_wait"
            /\ cmdQ' = Queued(Cmd(0, "Disconnect", NoIdent, FALSE, NoSpec))
            /\ fsent' = Cmd(nSent + 1, "Disconnect", NoIdent, FALSE, NoSpec)
            /\ nSent' = nSent + 1
            /\ cstat' = [cstat EXCEPT ![nSent + 1] = "queued"]
            /\ UNCHANGED <<cmdTxAlive, respRxAlive>>
    /\ fop' = NoFop
    /\ fres' = "none"
    /\ UNCHANGED <<mode, fgot, respQ, respCount, nDisc, everReady>>
    /\ UNCHANGED <<workerVars, loopVars, srvVars>>
    /\ UNCHANGED pureVars

\* Drop: the message that arrives within the timeout, or the channel found
\* closed; only Disconnected ends the drop without a panic.
facade_drop_recv ==
    /\ fpc = "drop_wait"
    /\ IF respQ # <<>>
       THEN /\ fgot' = Head(respQ).cid
            /\ fpc' = IF Head(respQ).kind = "Disconnected" THEN "gone" ELSE "panicked"
       ELSE /\ WorkerGone
            /\ fpc' = "panicked"
            /\ UNCHANGED fgot
    /\ respQ' = <<>>
    /\ cmdTxAlive' = FALSE
    /\ respRxAlive' = FALSE
    /\ UNCHANGED <<mode, nSent, fop, fres, fsent, cmdQ>>
    /\ UNCHANGED <<workerVars, loopVars, srvVars, ghostVars>>
    /\ UNCHANGED pureVars

\* Drop: nothing arrived within the three seconds.
facade_drop_timeout ==
    /\ fpc = "drop_wait"
    /\ respQ = <<>>
    /\ ~WorkerGone
    /\ fpc' = "panicked"
    /\ cmdTxAlive' = FALSE
    /\ respRxAlive' = FALSE
    /\ UNCHANGED <<mode, nSent, fop, fres, fsent, fgot, cmdQ, respQ>>
    /\ UNCHANGED <<workerVars, loopVars, srvVars, ghostVars>>
    /\ UNCHANGED pureVars

\* ------------------------------------------------------------ specification

Worker ==
    \/ init_connect
    \/ init_wait_ready
    \/ init_wake
    \/ start_loop_recv
    \/ start_loop_lock
    \/ start_loop_check
    \/ start_loop_dispatch
    \/ start_loop_unlock
    \/ mainloop_stop
    \/ send_disconnected
    \/ thread_exit

Mainloop ==
    \/ loop_begin_reply
    \/ loop_end_reply
    \/ loop_begin_state
    \/ loop_end_state
    \/ loop_begin_notify
    \/ subscribe_callback

Caller ==
    \/ raw_send
    \/ raw_recv
    \/ raw_drop_sender
    \/ raw_drop_receiver
    \/ drop_event_receiver
    \/ facade_call
    \/ facade_find_recv
    \/ facade_recv
    \/ facade_drop
    \/ facade_drop_recv
    \/ facade_drop_timeout

Next == Worker \/ Mainloop \/ Caller

Spec == Init /\ [][Next]_vars

\* Scheduling: both threads keep running. The worker takes each step it can;
\* where it needs the lock (or the end of a callback) it gets its turn.
\* The mainloop thread ends every callback it began and runs the callbacks
\* of the replies the server sent; a connect attempt ends one way or the
\* other. A blocked facade receive returns once there is something to
\* return. The loss of the connection, notifications and what callers do
\* next are not scheduled.
WorkerStep ==
    \/ init_connect
    \/ init_wait_ready
    \/ start_loop_recv
    \/ start_loop_check
    \/ start_loop_dispatch
    \/ start_loop_unlock
    \/ send_disconnected
    \/ thread_exit

Fairness ==
    /\ WF_vars(WorkerStep)
    /\ SF_vars(init_wake)
    /\ SF_vars(start_loop_lock)
    /\ SF_vars(mainloop_stop)
    /\ SF_vars(loop_begin_reply)
    /\ WF_vars(loop_end_reply)
    /\ WF_vars(loop_end_state)
    /\ WF_vars(subscribe_callback)
    /\ WF_vars(loop_begin_state /\ ctxState = "connecting")
    /\ WF_vars(facade_find_recv)
    /\ WF_vars(facade_recv)

FairSpec == Spec /\ Fairness

\* ------------------------------------------------------------------- claims

\* C1: for every command other than Disconnect that the worker dispatched
\* and whose callbacks have run to their end, exactly one response was sent,
\* never zero and never two.
C1_ExactlyOneResponse ==
    \A c \in Cids :
        /\ respCount[c] <= 1
        /\ cstat[c] = "done" => respCount[c] = 1

\* The command the worker took last is a Disconnect.
DisconnectTaken == cur.kind = "Disconnect" /\ cur.cid # 0

\* C2 as stated: once the worker has ended after taking a Disconnect, it
\* has put exactly one Disconnected on the response queue, whatever the
\* state of the connection when it took the Disconnect.
C2_DisconnectAlwaysAnswered ==
    (WorkerGone /\ DisconnectTaken) => nDisc = 1

\* The worker holds a Disconnect it took while the connection was ready.
DisconnectTakenReady == wpc = "dispatch" /\ cur.kind = "Disconnect"

\* C2 (amended): a Disconnect the worker takes while the connection is ready
\* is eventually answered with a Disconnected; at most one Disconnected is
\* ever sent, and once it is sent no response of any kind is sent or queued.
C2_DisconnectAnsweredWhenReady ==
    /\ DisconnectTakenReady ~> (nDisc = 1)
    /\ [](nDisc <= 1)
    /\ [][nDisc >= 1 => /\ nDisc' = nDisc
                        /\ respCount' = respCount
                        /\ Len(respQ') <= Len(respQ)]_vars

\* A Disconnect was answered while an earlier command was still awaiting
\* its callback.
C2_Witness ==
    /\ nDisc = 1
    /\ exitReason = "ExplicitDisconnect"
    /\ \E c \in Cids : cstat[c] = "inflight"

\* Commands awaiting a callback.
Awaiting == {c \in Cids : cstat[c] = "inflight"}

Issued ==
    {pending[i] : i \in 1..Len(pending)}
        \cup (IF cbRun.ev = "reply" THEN {cbRun.op} ELSE {})

C5_MutualExclusion ==
    /\ wpc \in {"init_check", "check", "dispatch"} => lock = "worker"
    /\ cbRun.ev # "none" => lock = "loop"
    /\ ~(cbRun.ev # "none" /\ wpc \in {"init_check", "check", "dispatch"})

\* A callback runs while the worker waits for the lock with a command.
C5_Witness == cbRun.ev = "reply" /\ wpc = "lock"

\* The facade blocks in a receive of one of its operations.
FacadeBlocked == fpc \in {"wait", "find"}

\* C6: no state in which the facade waits for the response to a command
\* whose operation the lost connection cancelled while the worker waits for
\* the next command: nothing is left that could make the operation return.
C6_NoCallerStuck ==
    ~ /\ FacadeBlocked
      /\ cstat[fsent.cid] = "cancelled"
      /\ wpc = "recv"
      /\ cmdQ = <<>>
      /\ respQ = <<>>
      /\ pending = <<>>
      /\ cbRun.ev = "none"

\* C7: the worker dispatches only on a ready connection. When it took a
\* command and found the connection not ready, it has ended with the lock
\* released and the loop stopped, no primitive was issued and no response
\* sent for that command or for a command queued behind it; a facade
\* operation blocked in its receive finds the channel empty and closed, and
\* returns the error of a closed channel without having received a response.
C7_NotReadyEndsSession ==
    /\ [](wpc = "dispatch" => ctxState = "ready")
    /\ [](exitReason = "not_ready" =>
            /\ wpc = "panicked"
            /\ lock # "worker"
            /\ ~loopRunning
            /\ cstat[cur.cid] = "taken"
            /\ respCount[cur.cid] = 0
            /\ \A i \in 1..Len(cmdQ) :
                 cstat[cmdQ[i].cid] = "queued" /\ respCount[cmdQ[i].cid] = 0
            /\ FacadeBlocked => (respQ = <<>> /\ WorkerGone))
    /\ [][(exitReason = "not_ready" /\ FacadeBlocked /\ fpc' # fpc)
            => (fres' = "ErrRecv" /\ fgot' = fgot /\ fpc' = "idle")]_vars

\* A facade operation returned the closed-channel error for a command the
\* worker took on a connection no longer ready.
C7_Witness ==
    /\ exitReason = "not_ready"
    /\ mode = "facade"
    /\ fsent.cid = cur.cid
    /\ fpc = "idle"
    /\ fres = "ErrRecv"

\* Startup ended without the connection ever being ready.
StartupFailed ==
    ~everReady /\ (ctxState = "failed" \/ exitReason = "init_failed")

\* C8: while the connection has never been ready no command is taken or
\* dispatched and no response or Disconnected is sent; after a failed
\* startup the worker ends, and a facade operation returns a send or
\* receive error: at once, or, when it was already blocked, eventually.
C8_StartupFailure ==
    /\ [](~everReady =>
            /\ \A c \in Cids : cstat[c] \in {"unsent", "queued"} /\ respCount[c] = 0
            /\ pending = <<>>
            /\ respQ = <<>>
            /\ nDisc = 0
            /\ fres \in {"none", "ErrSend", "ErrRecv"})
    /\ StartupFailed ~> (wpc = "panicked")
    /\ (StartupFailed /\ FacadeBlocked) ~> (fpc = "idle" /\ fres = "ErrRecv")

\* The connect attempt failed, and a facade operation attempted after the
\* worker had ended returned an error.
C8_Witness ==
    /\ ctxState = "failed"
    /\ exitReason = "init_failed"
    /\ fpc = "idle"
    /\ fres = "ErrSend"
    /\ fop.name = "get_server_info"

\* C9: whenever the facade sends a command the response queue is empty (a
\* by-name operation has taken the list before it sends its own command),
\* and the response an operation takes is the head of the queue and was
\* sent for the command that operation sent last.
C9_NoStaleResponse ==
    [][/\ (mode = "facade" /\ nSent' # nSent) => respQ' = <<>>
       /\ (mode = "facade" /\ fgot' # fgot) =>
             (fgot' = Head(respQ).cid /\ fgot' = fsent.cid)]_vars

\* A by-name operation took the response to its second command after the
\* list that answered its first.
C9_Witness ==
    /\ mode = "facade"
    /\ fpc = "idle"
    /\ fres = "Ok"
    /\ fsent.cid = 2
    /\ fgot = 2
    /\ ByName(fop)

\* The command of each facade operation's own category and operation.
OwnCommand ==
    [get_server_info |-> "GetServerInfo",
     get_default_sink |-> "GetDefaultSink",
     set_default_sink |-> "SetDefaultSink",
     subscribe |-> "Subscribe",
     get_sink_input_info_list |-> "GetSinkInputInfoList",
     get_source_output_info_list |-> "GetSourceOutputInfoList",
     get_sink_mute |-> "GetSinkMute",
     set_sink_mute |-> "SetSinkMute",
     set_sink_volume |-> "SetSinkVolume",
     get_sink_input_mute |-> "GetSinkInputMute",
     get_sink_input_volume |-> "GetSinkInputVolume",
     set_sink_input_mute |-> "SetSinkInputMute",
     set_sink_input_volume |-> "SetSinkInputVolume",
     kill_sink_input |-> "KillSinkInput",
     get_source_output_mute |-> "GetSourceOutputMute",
     get_source_output_volume |-> "GetSourceOutputVolume",
     set_source_output_mute |-> "SetSourceOutputMute",
     set_source_output_volume |-> "SetSourceOutputVolume",
     kill_source_output |-> "KillSourceOutput"]

\* C10: the command an operation waits on is the command of its own
\* category and operation; a source-output operation never sends a
\* sink-input command.
C10_OwnCategoryCommand ==
    (mode = "facade" /\ fpc = "wait") => fsent.kind = OwnCommand[fop.name]

\* What a facade operation returns, by the type of the value: an error, or
\* a success value.
ErrResults == {"ErrFailure", "ErrUnexpected", "ErrNotFound", "ErrSend", "ErrRecv"}

\* The variants of PAResponse the dispatcher of the model can send.
ResponseKinds ==
    {"OpComplete", "OpError", "DefaultSink", "Mute", "ServerInfo", "Volume",
     "SinkInfo", "SinkInfoList", "SinkInputInfo", "SinkInputInfoList",
     "SourceInfo", "SourceInfoList", "SourceOutputInfo",
     "SourceOutputInfoList", "Disconnected"}

\* The facade takes the head of the response queue inside an operation.
FacadeTakes == mode = "facade" /\ FacadeBlocked /\ respQ # <<>> /\ fpc' # fpc

\* The variant the blocked receive expects.
Expected ==
    IF fpc = "find"
    THEN FacadeTable[FacadeTable[fop.name].find].expect
    ELSE FacadeTable[fop.name].expect

\* A variant that is neither the expected one nor an OpError.
Unexpected(expect, kind) ==
    IF expect = "operation_result"
    THEN kind \notin {"OpComplete", "OpError"}
    ELSE kind \notin {expect, "OpError"}

Hits == {i \in 1..Len(Head(respQ).items) : Head(respQ).items[i].name = fop.id.name}

\* The list command of a category.
ListCommand(cat) ==
    CASE cat = "sink" -> "GetSinkInfoList"
      [] cat = "source" -> "GetSourceInfoList"
      [] cat = "sink_input" -> "GetSinkInputInfoList"
      [] cat = "source_output" -> "GetSourceOutputInfoList"

\* C12: an operation on an index-only category given a name first sends
\* the list command of its own category; when the list holds no object of
\* that name it returns the not-found error and sends nothing more; when it
\* does, the operation sends its own command with the index listed for
\* that object.
C12_ByNameResolves ==
    [][/\ (mode = "facade" /\ fpc = "idle" /\ fpc' \in {"find", "wait"}) =>
            IF FacadeTable[fop'.name].find # "" /\ fop'.id.t = "Name"
            THEN /\ fpc' = "find"
                 /\ fsent'.kind = ListCommand(Cat(OwnCommand[fop'.name]))
            ELSE fpc' = "wait"
       /\ (FacadeTakes /\ fpc = "find"
                /\ Head(respQ).kind = ListKind(Cat(OwnCommand[fop.name]))) =>
            IF Hits = {}
            THEN /\ fres' = "ErrNotFound"
                 /\ fpc' = "idle"
                 /\ nSent' = nSent
                 /\ cmdQ' = cmdQ
            ELSE ~WorkerGone =>
                 /\ nSent' = nSent + 1
                 /\ fpc' = "wait"
                 /\ fsent'.kind = OwnCommand[fop.name]
                 /\ \E i \in Hits : fsent'.id = Index(Head(respQ).items[i].index)
                 /\ cmdQ' = Append(cmdQ, fsent')]_vars

\* C13: disposal sends exactly one Disconnect and takes the next message of
\* the response queue; a Disconnected ends it normally, and any other
\* message, a closed channel or the timeout ends it with an error that
\* disposal surfaces, never with a panic.
C13_DisposalSurfacesError ==
    [][/\ (mode = "facade" /\ fpc = "idle" /\ fpc' \notin {"idle", "find", "wait"}) =>
            /\ fpc' = "drop_wait"
            /\ nSent' = nSent + 1
            /\ cmdQ' = Append(cmdQ, Cmd(nSent + 1, "Disconnect", NoIdent, FALSE, NoSpec))
       /\ (fpc = "drop_wait" /\ fpc' # fpc) =>
            /\ nSent' = nSent
            /\ fpc' = IF respQ # <<>> /\ Head(respQ).kind = "Disconnected"
                      THEN "gone" ELSE "drop_error"]_vars

\* The Disconnected messages waiting on the response queue.
DisconnectedQueued == {i \in 1..Len(respQ) : respQ[i].kind = "Disconnected"}

SendersDropped == ~cmdTxAlive

\* The step issues a primitive.
Issues == Len(pending') > Len(pending)

\* C15 as stated: once the request senders are dropped the worker
\* eventually ends with the loop stopped; it has then dispatched every
\* command that was in the request queue, and from the moment it found the
\* queue drained and closed no primitive is issued.
C15_DrainThenStop ==
    /\ SendersDropped ~> (WorkerGone /\ ~loopRunning)
    /\ []((SendersDropped /\ WorkerGone) => cmdQ = <<>>)
    /\ [][exitReason = "CommandSenderDropped" => ~Issues]_vars

\* C15 (amended): once the request senders are dropped the worker
\* eventually ends with the loop stopped. When it ends because of the
\* closed channel it has dispatched every command sent before, the queue is
\* empty, and from the moment it found the queue drained it issues no
\* primitive itself; until the loop is stopped a lookup callback of an
\* already dispatched command may still issue its mutating primitive, and
\* nothing is issued once the loop is stopped. A Disconnect in the queue or
\* a connection no longer ready ends the worker before the commands queued
\* behind are dispatched.
C15_DrainThenStopUnlessEnded ==
    /\ SendersDropped ~> (WorkerGone /\ ~loopRunning)
    /\ [](exitReason = "CommandSenderDropped" =>
            /\ cmdQ = <<>>
            /\ SendersDropped
            /\ \A c \in Cids : cstat[c] \notin {"queued", "taken"}
            /\ wpc \in {"stop", "send_disconnected", "exiting", "done"})
    /\ []((WorkerGone /\ cmdQ # <<>>) =>
            exitReason \in {"ExplicitDisconnect", "not_ready", "init_failed"})
    /\ [][(exitReason = "CommandSenderDropped" /\ Issues) =>
            /\ cbRun.ev = "reply"
            /\ loopRunning
            /\ pending'[Len(pending')].stage = 2]_vars
    /\ [][~loopRunning => ~Issues]_vars

\* The senders are dropped with a command still queued, and the worker
\* dispatches the command queued before it.
C15_Witness ==
    /\ SendersDropped
    /\ mode = "raw"
    /\ wpc = "dispatch"
    /\ cur.cid = 1
    /\ cmdQ # <<>>
    /\ Head(cmdQ).kind # "Disconnect"

\* The mainloop thread ends the subscribe callback it runs for a
\* notification.
Forwards == cbRun.ev = "notify" /\ cbRun'.ev = "none"

\* The forwarder is installed and the receiver of its sink is held.
ForwarderLive == subCb # 0 /\ subCb \in evAlive

\* C16: with the forwarder installed and its sink reachable, the callback
\* run for a notification pushes exactly one event to that sink:
\* SubscriptionNew, SubscriptionRemoved or SubscriptionChanged as the
\* notification's operation says, with the notification's category and
\* Index(index); the response queue is not touched, and the event queue
\* changes in no other step.
C16_OneEventPerNotification ==
    [][/\ (Forwards /\ ForwarderLive) =>
            /\ Len(evQ') = Len(evQ) + 1
            /\ \A i \in 1..Len(evQ) : evQ'[i] = evQ[i]
            /\ LET e == evQ'[Len(evQ')]
                   n == cbRun.note
               IN  /\ e.sink = subCb
                   /\ e.ev.kind = "Subscription" \o n.oper
                   /\ e.ev.fac = n.fac
                   /\ e.ev.id = [t |-> "Index", idx |-> n.index, name |-> ""]
            /\ respQ' = respQ
            /\ respCount' = respCount
       /\ ~Forwards => evQ' = evQ]_vars

\* A notification of a new sink-input reached the sink as SubscriptionNew.
C16_Witness ==
    \E i \in 1..Len(evQ) :
        /\ evQ[i].ev.kind = "SubscriptionNew"
        /\ evQ[i].ev.fac = "sink_input"
        /\ evQ[i].ev.id = Index(1)
        /\ evQ[i].sink = subCb

\* The push of the running callback fails: the receiver of its sink is
\* dropped.
PushFails == Forwards /\ subCb # 0 /\ subCb \notin evAlive

Installs == wpc = "dispatch" /\ cur.kind = "Subscribe" /\ subCb' = cur.cid

\* Every event was pushed to the sink of a Subscribe dispatched before, by
\* the installed forwarder while the loop ran; once the worker has ended
\* the loop is stopped.
EventsOnlyInSession ==
    /\ [](\A i \in 1..Len(evQ) :
            cstat[evQ[i].sink] \in {"inflight", "done", "cancelled"})
    /\ [](WorkerGone => ~loopRunning)
    /\ [][evQ' # evQ => (subCb # 0 /\ loopRunning /\ ~WorkerGone)]_vars
    /\ [][(Forwards /\ ForwarderLive) =>
            (Len(evQ') = Len(evQ) + 1 /\ evQ'[Len(evQ')].sink = subCb)]_vars

\* C18 as stated: no event is pushed before a Subscribe was dispatched nor
\* after the session has ended, and an installed forwarder stays installed
\* and delivers, across the Subscribe response and every later command,
\* until a push to its sink fails.
C18_ForwarderUntilUnreachable ==
    /\ EventsOnlyInSession
    /\ [][(subCb # 0 /\ subCb' # subCb) => (PushFails /\ subCb' = 0)]_vars

\* C18 (amended): as stated, but the dispatch of another Subscribe also
\* ends the forwarder, replacing it with the one of the new sink.
C18_ForwarderUntilReplaced ==
    /\ EventsOnlyInSession
    /\ [][(subCb # 0 /\ subCb' # subCb) =>
            (PushFails /\ subCb' = 0) \/ Installs]_vars
    /\ [][(subCb # 0 /\ wpc = "dispatch" /\ cur.kind # "Subscribe") =>
            subCb' = subCb]_vars

\* The forwarder of the first command runs for a notification after the
\* Subscribe was answered and while a later command awaits its callback.
C18_Witness ==
    /\ cbRun.ev = "notify"
    /\ ForwarderLive
    /\ subCb = 1
    /\ cstat[1] = "done"
    /\ cstat[2] = "inflight"

\* The lookup of a set-volume command returns its object, and the Channels
\* list of the command has another length than the volumes of the object.
Mismatch ==
    LET op == cbRun.op
    IN  /\ cbRun.ev = "reply"
        /\ op.prim = "get_info"
        /\ Act(op.kind) = "SetVolume"
        /\ op.spec.t = "Channels"
        /\ cbRun.accept
        /\ Found(srv, Cat(op.kind), op.id)
        /\ Len(op.spec.vols) # Len(srv.obj[Cat(op.kind)].vol)

\* C19: when the lookup callback of a set-volume command meets a Channels
\* list of the wrong length, it sends an error response for the command,
\* issues no primitive, and leaves the volumes of the server as they are.
C19_MismatchFailsValidation ==
    [][(Mismatch /\ cbRun'.ev = "none") =>
         /\ respCount'[cbRun.op.cid] = respCount[cbRun.op.cid] + 1
         /\ respRxAlive =>
               /\ respQ' = Append(respQ, respQ'[Len(respQ')])
               /\ respQ'[Len(respQ')].kind = "OpError"
               /\ respQ'[Len(respQ')].cid = cbRun.op.cid
         /\ pending' = pending
         /\ srv' = srv]_vars

\* ------------------------------------------------- volume update in a session

\* The channel values and vectors a sink reports, and the volumes a caller
\* asks for.
VolValues == {0, 1, PA_VOLUME_NORM}
Currents == UNION {[1..n -> VolValues] : n \in 1..MaxChannels}
PAVols ==
    {Value(0), Value(7), Value(PA_VOLUME_NORM),
     Percentage(-10), Percentage(50), Percentage(150)}

\* The per-channel lists a caller asks for: up to one channel more than any
\* object has, and lists whose length wraps to a channel count in the cast
\* to u8.
ChanVols == {Value(7), Percentage(50)}
ChannelLists == UNION {[1..n -> ChanVols] : n \in 1..(MaxChannels + 1)}
WrappedLists == {[i \in 1..(256 + n) |-> Value(1)] : n \in 1..MaxChannels}
UpdateSpecs ==
    {All(v) : v \in PAVols}
        \cup {Channels(vs) : vs \in ChannelLists \cup WrappedLists}

\* The set-volume commands, each with the identifiers its variant takes.
SetVolumeCmds ==
    {Cmd(1, k, id, FALSE, sp) :
        k \in {"SetSinkVolume", "SetSourceVolume"},
        id \in {Index(ObjIndex), Name(ObjName), Name("b")},
        sp \in UpdateSpecs}
    \cup {Cmd(1, k, id, FALSE, sp) :
            k \in {"SetSinkInputVolume", "SetSourceOutputVolume"},
            id \in {Index(ObjIndex), Index(ObjIndex + 1)},
            sp \in UpdateSpecs}

\* The set-default commands, by index and by name, of an object the server
\* has and of one it does not have.
SetDefaultCmds ==
    {Cmd(1, k, id, FALSE, NoSpec) :
        k \in {"SetDefaultSink", "SetDefaultSource"},
        id \in {Index(ObjIndex), Index(ObjIndex + 1), Name(ObjName), Name("b")}}

\* The commands that read the mute flag or the volumes of an object, each
\* with the identifiers its variant takes.
GetCmds ==
    {Cmd(1, k, id, FALSE, NoSpec) :
        k \in {"GetSinkMute", "GetSinkVolume", "GetSourceMute", "GetSourceVolume"},
        id \in {Index(ObjIndex), Name(ObjName), Name("b")}}
    \cup {Cmd(1, k, id, FALSE, NoSpec) :
            k \in {"GetSinkInputMute", "GetSinkInputVolume",
                   "GetSourceOutputMute", "GetSourceOutputVolume"},
            id \in {Index(ObjIndex), Index(ObjIndex + 1)}}

\* A session after startup, in which one set-volume command was sent for
\* an object whose volumes are any of Currents, or for an object the server
\* does not have, or one set-default command for an object that has a name
\* or has none, or one command reading an object's mute flag or volumes.
UpdateInit ==
    /\ wpc = "recv"
    /\ cur = NoCmd
    /\ exitReason = "none"
    /\ lock = "free"
    /\ loopRunning = TRUE
    /\ ctxState = "ready"
    /\ stateCb = FALSE
    /\ signalled = FALSE
    /\ cbRun = NoCb
    /\ pending = <<>>
    /\ \/ \E current \in Currents, c \in SetVolumeCmds :
             /\ srv = [InitServer EXCEPT
                         !.obj = [k \in Cats |-> [@[k] EXCEPT !.vol = current]]]
             /\ cmdQ = <<c>>
       \/ \E named \in BOOLEAN, c \in SetDefaultCmds :
             /\ srv = [InitServer EXCEPT
                         !.obj = [k \in Cats |-> [@[k] EXCEPT !.named = named]]]
             /\ cmdQ = <<c>>
       \/ \E mute \in BOOLEAN, c \in GetCmds :
             /\ srv = [InitServer EXCEPT
                         !.obj = [k \in Cats |-> [@[k] EXCEPT !.mute = mute]]]
             /\ cmdQ = <<c>>
    /\ subCb = 0
    /\ nNotif = 0
    /\ evQ = <<>>
    /\ evAlive = {}
    /\ cmdTxAlive = TRUE
    /\ respQ = <<>>
    /\ respRxAlive = TRUE
    /\ mode = "raw"
    /\ nSent = 1
    /\ fpc = "idle"
    /\ fop = NoFop
    /\ fres = "none"
    /\ fsent = NoCmd
    /\ fgot = 0
    /\ cstat = [c \in Cids |-> IF c = 1 THEN "queued" ELSE "unsent"]
    /\ respCount = [c \in Cids |-> 0]
    /\ nDisc = 0
    /\ everReady = TRUE
    /\ fnIn = NoIn
    /\ fnOut = NoOut

\* The worker takes and dispatches the command, and the mainloop thread
\* runs the callbacks of the lookup and of the set-volume primitive.
UpdateNext ==
    \/ start_loop_recv
    \/ start_loop_lock
    \/ start_loop_check
    \/ start_loop_dispatch
    \/ start_loop_unlock
    \/ loop_begin_reply
    \/ loop_end_reply

UpdateSpec == UpdateInit /\ [][UpdateNext]_vars

\* The lookup of a set-volume command with All(v) returns its object.
AllUpdate ==
    /\ cbRun.ev = "reply"
    /\ cbRun.op.prim = "get_info"
    /\ Act(cbRun.op.kind) = "SetVolume"
    /\ cbRun.op.spec.t = "All"
    /\ cbRun.accept
    /\ Found(srv, Cat(cbRun.op.kind), cbRun.op.id)

\* C20: the vector the lookup callback passes to the set-volume primitive
\* for All(v) has the length of the current vector of the object and holds
\* toRaw(v) in every channel, whatever the current values; the server that
\* accepts it then holds that vector.
C20_AllSetsEveryChannel ==
    [][/\ (AllUpdate /\ cbRun'.ev = "none") =>
            /\ Len(pending') = Len(pending) + 1
            /\ LET issued == pending'[Len(pending')]
                   current == srv.obj[Cat(cbRun.op.kind)].vol
                   raw == ToRaw(cbRun.op.spec.vols[1])
               IN  /\ issued.prim = "set_volume"
                   /\ Len(issued.cv) = Len(current)
                   /\ \A i \in 1..Len(current) : issued.cv[i] = raw
       /\ (cbRun.ev = "reply" /\ cbRun.op.prim = "set_volume" /\ cbRun.accept
              /\ cbRun.op.spec.t = "All" /\ cbRun'.ev = "none") =>
            LET raw == ToRaw(cbRun.op.spec.vols[1])
                now == srv'.obj[Cat(cbRun.op.kind)].vol
            IN  /\ Len(now) = Len(srv.obj[Cat(cbRun.op.kind)].vol)
                /\ \A i \in 1..Len(now) : now[i] = raw]_vars

\* Half of the norm was asked for a sink of three channels with three
\* different volumes, and the primitive carries it for all three.
C20_Witness ==
    /\ srv.obj["sink"].vol = <<0, 1, PA_VOLUME_NORM>>
    /\ pending # <<>>
    /\ Head(pending).prim = "set_volume"
    /\ Head(pending).spec = All(Percentage(50))
    /\ Head(pending).cv = <<32768, 32768, 32768>>

\* The lookup of a set-volume command with a Channels list returns its
\* object, and the list has as many entries as the object has channels.
ChannelsUpdate ==
    /\ cbRun.ev = "reply"
    /\ cbRun.op.prim = "get_info"
    /\ Act(cbRun.op.kind) = "SetVolume"
    /\ cbRun.op.spec.t = "Channels"
    /\ cbRun.accept
    /\ Found(srv, Cat(cbRun.op.kind), cbRun.op.id)
    /\ Len(cbRun.op.spec.vols) = Len(srv.obj[Cat(cbRun.op.kind)].vol)

\* C21: for a Channels list as long as the current vector, the vector
\* passed to the set-volume primitive is the list mapped through toRaw,
\* entry by entry and in the order given, whatever the current values.
C21_ChannelsMappedInOrder ==
    [][(ChannelsUpdate /\ cbRun'.ev = "none") =>
         /\ Len(pending') = Len(pending) + 1
         /\ LET issued == pending'[Len(pending')]
                list == cbRun.op.spec.vols
            IN  /\ issued.prim = "set_volume"
                /\ Len(issued.cv) = Len(list)
                /\ \A i \in 1..Len(list) : issued.cv[i] = ToRaw(list[i])]_vars

\* A list of two different volumes was asked for a sink-input of two
\* channels, and the primitive carries their raw values in that order.
C21_Witness ==
    /\ pending # <<>>
    /\ Head(pending).prim = "set_volume"
    /\ Head(pending).kind = "SetSinkInputVolume"
    /\ Head(pending).spec = Channels(<<Percentage(50), Value(7)>>)
    /\ Head(pending).cv = <<32768, 7>>
    /\ srv.obj["sink_input"].vol = <<0, 1>>

\* The reply to the lookup of a set-volume command is handled: the item was
\* delivered, or the lookup failed.
LookupHandled ==
    /\ cbRun.ev = "reply"
    /\ cbRun.op.prim = "get_info"
    /\ Act(cbRun.op.kind) = "SetVolume"
    /\ cbRun'.ev = "none"

LookupDelivers ==
    LookupHandled /\ cbRun.accept /\ Found(srv, Cat(cbRun.op.kind), cbRun.op.id)

\* C22: a set-volume primitive is issued only by the lookup callback of a
\* set-volume command to which the object was delivered, for the identifier
\* of the command and with the vector the update rule computes from the
\* object's current volumes; a lookup that reports an error sends exactly
\* one OpError for the command and issues nothing.
C22_SetVolumeAfterLookup ==
    [][/\ (Issues /\ pending'[Len(pending')].prim = "set_volume") =>
            /\ LookupDelivers
            /\ pending' = Append(pending, pending'[Len(pending')])
            /\ LET issued == pending'[Len(pending')]
                   u == updated_channel_volumes(
                            srv.obj[Cat(cbRun.op.kind)].vol, cbRun.op.spec)
               IN  /\ issued.cid = cbRun.op.cid
                   /\ issued.kind = cbRun.op.kind
                   /\ issued.id = cbRun.op.id
                   /\ ~u.panic
                   /\ issued.cv = u.cv
       /\ (LookupHandled /\ ~LookupDelivers) =>
            /\ pending' = pending
            /\ respCount' = [respCount EXCEPT ![cbRun.op.cid] = @ + 1]
            /\ respRxAlive =>
                  /\ Len(respQ') = Len(respQ) + 1
                  /\ respQ'[Len(respQ')].kind = "OpError"
                  /\ respQ'[Len(respQ')].cid = cbRun.op.cid]_vars

\* The lookup of a SetSourceVolume by name delivered a source of two
\* channels, and the primitive issued after it carries the vector computed
\* for that source.
C22_Witness ==
    /\ pending # <<>>
    /\ Head(pending).prim = "set_volume"
    /\ Head(pending).stage = 2
    /\ Head(pending).kind = "SetSourceVolume"
    /\ Head(pending).id = Name(ObjName)
    /\ Head(pending).spec = All(Percentage(150))
    /\ Head(pending).cv = <<98304, 98304>>
    /\ srv.obj["source"].vol = <<1, 0>>
    /\ respCount[1] = 0

\* ------------------------------------------- the volume model on its own

\* Everything of a session: it stays as constructed while a function of
\* the volume model is applied.
sessionVars ==
    <<workerVars, loopVars, srvVars, chanVars, callerVars, ghostVars>>

\* updated_channel_volumes is given any current vector and any VolumeSpec.
UpdateArgs ==
    {[NoIn EXCEPT !.f = "update", !.current = c, !.spec = sp] :
        c \in Currents, sp \in UpdateSpecs}

\* A volume literal is a sequence of characters.
Digits == {"0", "1", "2", "3", "4", "5", "6", "7", "8", "9"}
DigitVal ==
    [c \in Digits |->
        CASE c = "0" -> 0 [] c = "1" -> 1 [] c = "2" -> 2 [] c = "3" -> 3
          [] c = "4" -> 4 [] c = "5" -> 5 [] c = "6" -> 6 [] c = "7" -> 7
          [] c = "8" -> 8 [] c = "9" -> 9]

RECURSIVE ToInt(_)
ToInt(ds) ==
    IF ds = <<>> THEN 0
    ELSE 10 * ToInt(SubSeq(ds, 1, Len(ds) - 1)) + DigitVal[ds[Len(ds)]]

RECURSIVE Pow10(_)
Pow10(n) == IF n = 0 THEN 1 ELSE 10 * Pow10(n - 1)

\* str::ends_with and String::pop.
ends_with(s, suffix) ==
    /\ Len(s) >= Len(suffix)
    /\ SubSeq(s, Len(s) - Len(suffix) + 1, Len(s)) = suffix

pop(s) == SubSeq(s, 1, Len(s) - 1)

\* A trim that leaves the whitespace after the number where it is.
RECURSIVE trim_start_only(_)
trim_start_only(s) ==
    IF s # <<>> /\ Head(s) = " " THEN trim_start_only(Tail(s)) ELSE s

\* str::trim: the text without its leading and trailing whitespace.
RECURSIVE trim(_)
trim(s) ==
    IF s # <<>> /\ Head(s) = " " THEN trim(Tail(s))
    ELSE IF s # <<>> /\ s[Len(s)] = " " THEN trim(pop(s))
    ELSE s

\* What a parse returns: a volume of a unit with the value num / den, or
\* an error with the message its Display gives.
ParseOk(unit, num, den) ==
    [ok |-> TRUE, unit |-> unit, num |-> num, den |-> den, msg |-> ""]
ParseErr(msg) ==
    [ok |-> FALSE, unit |-> "", num |-> 0, den |-> 1, msg |-> msg]

\* str::parse::<f64>: an optional sign, then digits with at most one point
\* and at least one digit; the value is kept as a decimal fraction. Texts
\* here hold no exponent, "inf" or "nan".
parse_f64(s) ==
    LET signed == s # <<>> /\ Head(s) \in {"+", "-"}
        body == IF signed THEN Tail(s) ELSE s
        dots == {i \in 1..Len(body) : body[i] = "."}
        d == IF dots = {} THEN Len(body) + 1 ELSE CHOOSE i \in dots : TRUE
        ip == SubSeq(body, 1, d - 1)
        fp == SubSeq(body, d + 1, Len(body))
        digits == ip \o fp
    IN  IF s = <<>> THEN ParseErr("cannot parse float from empty string")
        ELSE IF \/ Cardinality(dots) > 1
                \/ digits = <<>>
                \/ \E i \in 1..Len(digits) : digits[i] \notin Digits
        THEN ParseErr("invalid float literal")
        ELSE ParseOk("f64",
                     IF Head(s) = "-" THEN 0 - ToInt(digits) ELSE ToInt(digits),
                     Pow10(Len(fp)))

\* An integer parse that takes a minus sign and drops it.
parse_u32_signed(s) ==
    LET digits == IF s # <<>> /\ Head(s) \in {"+", "-"} THEN Tail(s) ELSE s
    IN  IF s = <<>> THEN ParseErr("cannot parse integer from empty string")
        ELSE IF \/ digits = <<>>
                \/ \E i \in 1..Len(digits) : digits[i] \notin Digits
        THEN ParseErr("invalid digit found in string")
        ELSE ParseOk("u32", ToInt(digits), 1)

\* str::parse::<u32>: an optional plus sign, then digits only. Texts here
\* hold at most nine digits, so none overflows.
parse_u32(s) ==
    LET digits == IF s # <<>> /\ Head(s) = "+" THEN Tail(s) ELSE s
    IN  IF s = <<>> THEN ParseErr("cannot parse integer from empty string")
        ELSE IF \/ digits = <<>>
                \/ \E i \in 1..Len(digits) : digits[i] \notin Digits
        THEN ParseErr("invalid digit found in string")
        ELSE ParseOk("u32", ToInt(digits), 1)

\* PAVol::from_str.
from_str(text) ==
    IF ends_with(text, <<"L">>)
    THEN LET f == parse_f64(trim(pop(text)))
         IN  IF f.ok THEN ParseOk("Linear", f.num, f.den) ELSE f
    ELSE IF ends_with(text, <<"d", "B">>)
    THEN LET f == parse_f64(trim(pop(pop(text))))
         IN  IF f.ok THEN ParseOk("Decibels", f.num, f.den) ELSE f
    ELSE IF ends_with(text, <<"%">>)
    THEN LET f == parse_f64(trim(pop(text)))
             n == parse_u32(trim(pop(text)))
         IN  IF f.ok THEN ParseOk("Percentage", f.num, f.den)
             ELSE IF n.ok THEN ParseOk("Percentage", n.num, 1)
             ELSE n
    ELSE LET n == parse_u32(trim(text))
         IN  IF n.ok THEN ParseOk("Value", n.num, 1) ELSE n

\* The literals given to from_str: a numeric part, well formed with the
\* value num / den or not, with or without whitespace before and after it,
\* then a suffix, then nothing or whitespace.
GoodLits ==
    {[s |-> <<"5", "0">>, num |-> 50, den |-> 1, uint |-> TRUE],
     [s |-> <<"3", "2", "7", "6", "8">>, num |-> 32768, den |-> 1, uint |-> TRUE],
     [s |-> <<"0">>, num |-> 0, den |-> 1, uint |-> TRUE],
     [s |-> <<"-", "6", ".", "0">>, num |-> -6, den |-> 1, uint |-> FALSE],
     [s |-> <<"0", ".", "5">>, num |-> 1, den |-> 2, uint |-> FALSE],
     [s |-> <<"1", "2", ".", "2", "5">>, num |-> 49, den |-> 4, uint |-> FALSE]}

OddParts ==
    {<<>>, <<"a", "b", "c">>, <<"x">>, <<"-">>, <<".">>, <<"a", "5">>,
     <<"5", " ", "0">>, <<"+", "5">>, <<"-", "5">>, <<"5", ".">>,
     <<".", "5">>, <<"1", ".", "2", ".", "3">>}

Spaces == {<<>>, <<" ">>}
Suffixes == {<<>>, <<"L">>, <<"d", "B">>, <<"%">>, <<"B">>}

ParseTexts ==
    {lead \o n \o mid \o suf \o trail :
        lead \in Spaces, n \in {g.s : g \in GoodLits} \cup OddParts,
        mid \in Spaces, suf \in Suffixes, trail \in Spaces}

ParseArgs == {[NoIn EXCEPT !.f = "parse", !.text = t] : t \in ParseTexts}

\* PAVolume::percentage: (raw / NORMAL) * 100, kept as the fraction
\* num / den; both float operations are exact for a raw value.
percentage(raw) == [num |-> raw * 100, den |-> PA_VOLUME_NORM]

\* The volumes PAVol::value is asked to convert, and the raw values whose
\* percentage is read.
MaxPct == 150
ValueArgs ==
    {[NoIn EXCEPT !.f = "value", !.vol = v] :
        v \in PAVols \cup {Percentage(q) : q \in 0..MaxPct}}
PercentageArgs ==
    {[NoIn EXCEPT !.f = "percentage", !.raw = r] :
        r \in {ToRaw(Percentage(q)) : q \in 0..MaxPct}
                \cup {1, PA_VOLUME_NORM - 1, PA_VOLUME_NORM + 1}}

\* Percentages over the whole range of the cast: below zero, the ones of
\* ValueArgs, around the least percentage whose product with NORMAL is
\* above u32::MAX, and far above it.
WidePcts ==
    ((0 - MaxPct)..MaxPct)
        \cup {100 * Half + k : k \in (0 - MaxPct)..MaxPct}
        \cup {200 * Half, 200 * Half + 1, 2147483647, 0 - 2147483647}
Value32Args ==
    {[NoIn EXCEPT !.f = "value32", !.vol = Percentage(q)] : q \in WidePcts}

\* What a list callback is called with: up to MaxItems items, some of them
\* equal, and then the end of the list, an error, or nothing yet.
MaxItems == 2
ListItems ==
    {[index |-> 0, name |-> ObjName], [index |-> 1, name |-> "b"],
     [index |-> 2, name |-> ObjName]}
ItemLists == UNION {[1..n -> ListItems] : n \in 0..MaxItems}
ListArgs ==
    {[NoIn EXCEPT !.f = "list", !.kind = k,
                  !.results = [i \in 1..Len(its) |-> ListItem(its[i])] \o e] :
        k \in {"GetSinkInputInfoList", "GetSourceInfoList"},
        its \in ItemLists,
        e \in {<<ListEnd>>, <<ListError>>, <<>>}}

PureArgs ==
    UpdateArgs \cup ParseArgs \cup ValueArgs \cup PercentageArgs \cup ListArgs
        \cup Value32Args

PureInit ==
    /\ wpc = "init"
    /\ cur = NoCmd
    /\ exitReason = "none"
    /\ lock = "free"
    /\ loopRunning = FALSE
    /\ ctxState = "unconnected"
    /\ stateCb = FALSE
    /\ signalled = FALSE
    /\ cbRun = NoCb
    /\ pending = <<>>
    /\ srv = InitServer
    /\ subCb = 0
    /\ nNotif = 0
    /\ evQ = <<>>
    /\ evAlive = {}
    /\ cmdQ = <<>>
    /\ cmdTxAlive = TRUE
    /\ respQ = <<>>
    /\ respRxAlive = TRUE
    /\ mode = "raw"
    /\ nSent = 0
    /\ fpc = "idle"
    /\ fop = NoFop
    /\ fres = "none"
    /\ fsent = NoCmd
    /\ fgot = 0
    /\ cstat = [c \in Cids |-> "unsent"]
    /\ respCount = [c \in Cids |-> 0]
    /\ nDisc = 0
    /\ everReady = FALSE
    /\ fnIn \in PureArgs
    /\ fnOut = NoOut

\* updated_channel_volumes(current, &volume_spec) is called and returns
\* or panics.
call_updated_channel_volumes ==
    /\ fnIn.f = "update"
    /\ ~fnOut.done
    /\ LET u == updated_channel_volumes(fnIn.current, fnIn.spec)
       IN  fnOut' = [NoOut EXCEPT !.done = TRUE, !.panic = u.panic, !.cv = u.cv]
    /\ UNCHANGED <<fnIn, sessionVars>>

\* PAVol::from_str(text) is called and returns a volume or an error.
call_from_str ==
    /\ fnIn.f = "parse"
    /\ ~fnOut.done
    /\ LET r == from_str(fnIn.text)
       IN  fnOut' = [NoOut EXCEPT !.done = TRUE, !.ok = r.ok, !.unit = r.unit,
                                 !.num = r.num, !.den = r.den, !.msg = r.msg]
    /\ UNCHANGED <<fnIn, sessionVars>>

\* PAVol::value(): the volume converted to its raw value.
call_value ==
    /\ fnIn.f = "value"
    /\ ~fnOut.done
    /\ fnOut' = [NoOut EXCEPT !.done = TRUE, !.ok = TRUE, !.unit = "Value",
                              !.num = ToRaw(fnIn.vol)]
    /\ UNCHANGED <<fnIn, sessionVars>>

\* PAVolume::percentage() of a raw value.
call_percentage ==
    /\ fnIn.f = "percentage"
    /\ ~fnOut.done
    /\ LET q == percentage(fnIn.raw)
       IN  fnOut' = [NoOut EXCEPT !.done = TRUE, !.ok = TRUE,
                                 !.unit = "Percentage", !.num = q.num,
                                 !.den = q.den]
    /\ UNCHANGED <<fnIn, sessionVars>>

\* The list callback of get_<category>_info_list is called with each of
\* the results in turn.
call_get_info_list ==
    /\ fnIn.f = "list"
    /\ ~fnOut.done
    /\ LET op == Op(Cmd(1, fnIn.kind, NoIdent, FALSE, NoSpec), "get_info_list",
                    NoIdent, <<>>, 1, "loop")
       IN  fnOut' = [NoOut EXCEPT
                        !.done = TRUE,
                        !.resp = get_info_list_calls(op, fnIn.results, <<>>).resp]
    /\ UNCHANGED <<fnIn, sessionVars>>

\* PAVol::value() of a percentage anywhere in the range of f64 the model
\* has.
call_value32 ==
    /\ fnIn.f = "value32"
    /\ ~fnOut.done
    /\ fnOut' = [NoOut EXCEPT !.done = TRUE, !.ok = TRUE, !.unit = "Value",
                              !.raw32 = ToRaw32(fnIn.vol)]
    /\ UNCHANGED <<fnIn, sessionVars>>

PureNext ==
    \/ call_updated_channel_volumes
    \/ call_from_str
    \/ call_value
    \/ call_percentage
    \/ call_get_info_list
    \/ call_value32

PureSpec == PureInit /\ [][PureNext]_vars

\* C23: whatever the current vector and the VolumeSpec, a Channels list of
\* any length included, the volume update fails or returns a vector with
\* as many channels as the current one.
C23_ChannelCountKept ==
    (fnIn.f = "update" /\ fnOut.done) =>
        \/ fnOut.panic
        \/ Len(fnOut.cv) = Len(fnIn.current)

\* A list of 257 volumes, whose length is 1 in eight bits, was given for
\* an object of one channel, and the update failed.
C23_Witness ==
    /\ fnIn.f = "update"
    /\ fnIn.spec.t = "Channels"
    /\ Len(fnIn.spec.vols) = 257
    /\ Len(fnIn.current) = 1
    /\ fnOut.done
    /\ fnOut.panic

\* The unit a literal's ending stands for, and the ending of a unit.
UnitOf(text) ==
    IF ends_with(text, <<"L">>) THEN "Linear"
    ELSE IF ends_with(text, <<"d", "B">>) THEN "Decibels"
    ELSE IF ends_with(text, <<"%">>) THEN "Percentage"
    ELSE "Value"

SuffixOf(unit) ==
    CASE unit = "Linear" -> <<"L">>
      [] unit = "Decibels" -> <<"d", "B">>
      [] unit = "Percentage" -> <<"%">>
      [] unit = "Value" -> <<>>

\* from_str returned the volume num / den of the unit.
Gives(unit, num, den) ==
    /\ fnOut.ok
    /\ fnOut.unit = unit
    /\ fnOut.num * den = num * fnOut.den

\* C24: from_str classifies a literal by its ending (L: Linear, dB:
\* Decibels, %: Percentage, anything else: a raw Value), and a well-formed
\* number before the ending, with or without whitespace around it, gives
\* the volume of that value; 50% gives Percentage(50), -6.0dB gives
\* Decibels(-6.0), 0.5L gives Linear(0.5) and 32768 gives Value(32768).
C24_ParseBySuffix ==
    (fnIn.f = "parse" /\ fnOut.done) =>
        /\ fnOut.ok => fnOut.unit = UnitOf(fnIn.text)
        /\ \A g \in GoodLits, lead \in Spaces, mid \in Spaces :
             /\ \A u \in {"Linear", "Decibels", "Percentage"} :
                  fnIn.text = lead \o g.s \o mid \o SuffixOf(u)
                      => Gives(u, g.num, g.den)
             /\ (g.uint /\ fnIn.text = lead \o g.s \o mid)
                      => Gives("Value", g.num, 1)
        /\ fnIn.text = <<"5", "0", "%">> => Gives("Percentage", 50, 1)
        /\ fnIn.text = <<"-", "6", ".", "0", "d", "B">> => Gives("Decibels", -6, 1)
        /\ fnIn.text = <<"0", ".", "5", "L">> => Gives("Linear", 1, 2)
        /\ fnIn.text = <<"3", "2", "7", "6", "8">> => Gives("Value", 32768, 1)

\* " -6.0 dB", with whitespace on both sides of the number, was parsed as
\* Decibels(-6.0).
C24_Witness ==
    /\ fnIn.f = "parse"
    /\ fnIn.text = <<" ", "-", "6", ".", "0", " ", "d", "B">>
    /\ fnOut.done
    /\ fnOut.ok
    /\ fnOut.unit = "Decibels"
    /\ fnOut.num = -60
    /\ fnOut.den = 10

\* The numeric part of a literal: what is left of it without the ending of
\* its unit and the whitespace around.
NumericPart(text) ==
    trim(SubSeq(text, 1, Len(text) - Len(SuffixOf(UnitOf(text)))))

\* A numeric part that is no number of its unit: before L, dB and % one
\* with no digit or with a character no number holds; for a raw value
\* anything but digits (a sign, a fraction, the empty text).
Malformed(text) ==
    LET n == NumericPart(text)
    IN  IF UnitOf(text) = "Value"
        THEN n = <<>> \/ \E i \in 1..Len(n) : n[i] \notin Digits
        ELSE \/ \A i \in 1..Len(n) : n[i] \notin Digits
             \/ \E i \in 1..Len(n) : n[i] \notin Digits \cup {"+", "-", "."}

\* A raw value written with a plus sign before its digits.
PlusSigned(text) ==
    LET n == NumericPart(text)
    IN  /\ UnitOf(text) = "Value"
        /\ Len(n) > 1
        /\ Head(n) = "+"
        /\ \A i \in 2..Len(n) : n[i] \in Digits

\* The messages of std's ParseIntError and ParseFloatError.
ParseErrorKinds ==
    {"cannot parse integer from empty string", "invalid digit found in string",
     "cannot parse float from empty string", "invalid float literal"}

\* A message that names the text it is about is not the message of another
\* malformed text.
NamesText ==
    \A t \in {<<"a", "b", "c", "%">>, <<"x", "%">>} :
        t # fnIn.text => from_str(t).msg # fnOut.msg

C26_PercentageOfNominal ==
    /\ PA_VOLUME_NORM = 65536
    /\ (fnIn.f = "value" /\ fnOut.done /\ fnIn.vol.u = "Percentage"
            /\ fnIn.vol.n >= 0) =>
          /\ fnOut.num * 100 <= PA_VOLUME_NORM * fnIn.vol.n
          /\ PA_VOLUME_NORM * fnIn.vol.n < (fnOut.num + 1) * 100
          /\ fnIn.vol.n = 100 => fnOut.num = PA_VOLUME_NORM
          /\ fnIn.vol.n = 0 => fnOut.num = 0
    /\ (fnIn.f = "percentage" /\ fnOut.done) =>
          /\ fnIn.raw = PA_VOLUME_NORM => fnOut.num = 100 * fnOut.den
          /\ fnIn.raw = 0 => fnOut.num = 0
          /\ \A q \in 0..MaxPct :
               (q * fnOut.den >= fnOut.num) <=> (ToRaw(Percentage(q)) >= fnIn.raw)

\* 33 percent was converted to the raw value 21626, the integer part of
\* 21626.88.
C26_Witness ==
    /\ fnIn.f = "value"
    /\ fnIn.vol = Percentage(33)
    /\ fnOut.done
    /\ fnOut.num = 21626

\* ------------------------------------------------------- after an OpError

\* An OpError sent for command c waits in the response queue.
Errored(c) ==
    \E i \in 1..Len(respQ) : respQ[i].kind = "OpError" /\ respQ[i].cid = c

\* A callback sends an OpError.
SendsOpError ==
    /\ cbRun.ev = "reply"
    /\ Len(respQ') > Len(respQ)
    /\ respQ'[Len(respQ')].kind = "OpError"

\* The callbacks of a reply end, for a command sent after one that was
\* answered with an OpError.
RepliesAfterError ==
    /\ cbRun.ev = "reply"
    /\ cbRun'.ev = "none"
    /\ \E c \in Cids : c < cbRun.op.cid /\ Errored(c)

\* C28: sending an OpError leaves the worker where it is in its command
\* loop, with the loop running, the connection and the request queue as they
\* were; and the reply to a command sent after one answered with OpError
\* either issues the command's next primitive or sends the one response of
\* that command.
C28_UsableAfterOpError ==
    [][/\ SendsOpError =>
            UNCHANGED <<wpc, cur, exitReason, loopRunning, ctxState, cmdQ,
                        cmdTxAlive>>
       /\ RepliesAfterError =>
            \/ Issues /\ respCount' = respCount
            \/ /\ ~Issues
               /\ respCount' = [respCount EXCEPT ![cbRun.op.cid] = 1]
               /\ respCount[cbRun.op.cid] = 0]_vars

\* ------------------------------------------------- the ends of the channels

\* C29: no state in which the caller has dropped the response receiver and
\* kept the request sender while the worker waits for a command with the
\* mainloop running and nothing queued or in flight: after the drop the
\* worker shuts the loop down.
C29_ReceiverDropShutsDown ==
    ~ /\ ~respRxAlive
      /\ cmdTxAlive
      /\ wpc = "recv"
      /\ loopRunning
      /\ cmdQ = <<>>
      /\ pending = <<>>
      /\ cbRun.ev = "none"

\* The caller takes a Disconnected from the response channel, and has taken
\* the one that was sent.
TakesDisconnected ==
    /\ respRxAlive'
    /\ respQ # <<>>
    /\ Head(respQ).kind = "Disconnected"
    /\ respQ' = Tail(respQ)

ReceivedDisconnected == nDisc = 1 /\ respRxAlive /\ DisconnectedQueued = {}

\* C30: when the caller takes the Disconnected the worker thread has ended
\* and dropped its command receiver; from then on no command is queued, and
\* none is taken or dispatched.
C30_NoSendAfterDisconnected ==
    [][/\ TakesDisconnected => WorkerGone
       /\ ReceivedDisconnected =>
            /\ cmdQ' = cmdQ
            /\ nSent' = nSent
            /\ pending' = pending
            /\ wpc' \in {"exiting", "done"}]_vars

\* ------------------------------------------------- setting the default

\* The reply to the lookup of a set-default command is handled.
DefaultLookupHandled ==
    /\ cbRun.ev = "reply"
    /\ cbRun.op.prim = "get_info"
    /\ Act(cbRun.op.kind) = "SetDefault"
    /\ cbRun'.ev = "none"

\* The lookup delivered an object whose info carries a name.
DefaultLookupResolves ==
    /\ DefaultLookupHandled
    /\ cbRun.accept
    /\ Found(srv, Cat(cbRun.op.kind), cbRun.op.id)
    /\ srv.obj[Cat(cbRun.op.kind)].named

\* C31: a set-default command given a name issues the set-default primitive
\* for that name at dispatch, without a lookup; given an index it issues the
\* lookup by that index, and the set-default primitive is then issued only
\* by the lookup callback that was delivered a named object, for the name
\* of that object; a lookup that fails or delivers an object without a name
\* sends exactly one OpError for the command and issues nothing.
C31_SetDefaultResolvesIndex ==
    [][/\ (wpc = "dispatch" /\ wpc' = "unlock" /\ Act(cur.kind) = "SetDefault") =>
            /\ pending' = Append(pending, pending'[Len(pending')])
            /\ LET issued == pending'[Len(pending')]
               IN  /\ issued.cid = cur.cid
                   /\ issued.id = cur.id
                   /\ issued.stage = 1
                   /\ issued.prim = IF cur.id.t = "Name" THEN "set_default"
                                    ELSE "get_info"
       /\ (Issues /\ pending'[Len(pending')].prim = "set_default"
                  /\ pending'[Len(pending')].stage = 2) =>
            /\ DefaultLookupResolves
            /\ cbRun.op.id.t = "Index"
            /\ pending' = Append(pending, pending'[Len(pending')])
            /\ pending'[Len(pending')].cid = cbRun.op.cid
            /\ pending'[Len(pending')].kind = cbRun.op.kind
            /\ pending'[Len(pending')].id = Name(ObjName)
            /\ respCount' = respCount
       /\ DefaultLookupResolves => Issues
       /\ (DefaultLookupHandled /\ ~DefaultLookupResolves) =>
            /\ pending' = pending
            /\ respCount' = [respCount EXCEPT ![cbRun.op.cid] = @ + 1]
            /\ respRxAlive =>
                  /\ Len(respQ') = Len(respQ) + 1
                  /\ respQ'[Len(respQ')].kind = "OpError"
                  /\ respQ'[Len(respQ')].cid = cbRun.op.cid]_vars

\* SetDefaultSource by index: the lookup delivered the source, and the
\* set-default primitive for the source's name is in flight, unanswered.
C31_Witness ==
    /\ pending # <<>>
    /\ Head(pending).prim = "set_default"
    /\ Head(pending).stage = 2
    /\ Head(pending).kind = "SetDefaultSource"
    /\ Head(pending).id = Name(ObjName)
    /\ cmdQ = <<>>
    /\ respCount[1] = 0

\* SetDefaultSink by index of a sink without a name: one OpError was sent
\* and the default sink is as it was.
C31_WitnessUnnamed ==
    /\ ~srv.obj["sink"].named
    /\ pending = <<>>
    /\ respQ # <<>>
    /\ respQ[1].kind = "OpError"
    /\ respCount[1] = 1
    /\ srv.def = ""
    /\ srv.defSource = ""

\* -------------------------------------------------- commands during startup

\* The worker is in init: the connect attempt has not been seen to succeed.
InStartup == wpc \in {"init", "init_check", "init_wait"}

\* C32: while the worker is in init no command has been taken and nothing
\* has been issued on the connection, however many commands were sent;
\* init is left for the request queue only on seeing the connection ready,
\* with the lock held; a command leaves the queue only when the worker is
\* at its receive after that; and no primitive is issued on a connection
\* that is unconnected or connecting.
C32_CommandsWaitForReady ==
    /\ [](InStartup =>
            /\ cur = NoCmd
            /\ pending = <<>>
            /\ \A c \in Cids : cstat[c] \in {"unsent", "queued"}
            /\ \A i \in 1..Len(cmdQ) : cstat[cmdQ[i].cid] = "queued")
    /\ [][/\ (InStartup /\ wpc' = "recv") =>
                (ctxState = "ready" /\ lock = "worker" /\ everReady)
          /\ Len(cmdQ') < Len(cmdQ) =>
                (wpc = "recv" /\ everReady /\ cur' = Head(cmdQ))
          /\ Issues => ctxState \notin {"unconnected", "connecting"}]_vars

\* Two commands were sent while the connection was being made; they are in
\* the queue, untaken, as init sees the connection ready.
C32_Witness ==
    /\ wpc = "init_check"
    /\ ctxState = "ready"
    /\ Len(cmdQ) = 2
    /\ \A i \in 1..2 : cstat[cmdQ[i].cid] = "queued"
    /\ cur = NoCmd
    /\ pending = <<>>

\* ------------------------------------------------------- the list callback

\* The items among the results, in the order of the calls.
Delivered(results) ==
    LET at == {i \in 1..Len(results) : results[i].t = "Item"}
    IN  [i \in 1..Cardinality(at) |-> results[i].item]

\* C33: after the calls of a list callback, the response sent is one list
\* response of the command's category holding the items of the Item calls
\* in the order of those calls when the last call was the end of the list,
\* one OpError holding no item when the last call was an error, and none
\* while neither has come.
C33_ListHoldsDeliveredItems ==
    (fnIn.f = "list" /\ fnOut.done) =>
        LET rs == fnIn.results
            last == IF rs = <<>> THEN "none" ELSE rs[Len(rs)].t
        IN  CASE last = "End" ->
                   fnOut.resp =
                       <<Resp(ListKind(Cat(fnIn.kind)), 1, NoIdent, FALSE, <<>>,
                              Delivered(rs))>>
              [] last = "Error" ->
                   /\ Len(fnOut.resp) = 1
                   /\ fnOut.resp[1].kind = "OpError"
                   /\ fnOut.resp[1].cid = 1
                   /\ fnOut.resp[1].items = <<>>
              [] OTHER -> fnOut.resp = <<>>

\* Two different sources were delivered and then the end of the list: the
\* response lists them in that order.
C33_Witness ==
    /\ fnIn.f = "list"
    /\ fnIn.kind = "GetSourceInfoList"
    /\ fnIn.results = <<ListItem([index |-> 1, name |-> "b"]),
                        ListItem([index |-> 0, name |-> ObjName]), ListEnd>>
    /\ fnOut.done
    /\ Len(fnOut.resp) = 1
    /\ fnOut.resp[1].kind = "SourceInfoList"
    /\ fnOut.resp[1].items = <<[index |-> 1, name |-> "b"],
                               [index |-> 0, name |-> ObjName]>>

\* An item was delivered and then an error: one OpError, the item is gone.
C33_WitnessError ==
    /\ fnIn.f = "list"
    /\ Len(fnIn.results) = 2
    /\ fnIn.results[2] = ListError
    /\ fnOut.done
    /\ fnOut.resp = <<Resp("OpError", 1, NoIdent, FALSE, <<>>, <<>>)>>

\* ------------------------------------------- the identifier of a response

\* The reply to the lookup of a command reading the mute flag or the
\* volumes is handled, and the object was delivered.
GetDelivers ==
    /\ cbRun.ev = "reply"
    /\ cbRun.op.prim = "get_info"
    /\ Act(cbRun.op.kind) \in {"GetMute", "GetVolume"}
    /\ cbRun'.ev = "none"
    /\ cbRun.accept
    /\ Found(srv, Cat(cbRun.op.kind), cbRun.op.id)

\* C34: the lookup a get-mute or get-volume command starts carries the
\* identifier of the command, which for a sink-input or source-output is
\* an index; it is in flight unchanged until its reply; and the Mute or
\* Volume response sent when the object is delivered carries the
\* identifier of that lookup, with the object's mute flag or volumes.
C34_ResponseEchoesIdentifier ==
    [][/\ (wpc = "dispatch" /\ wpc' = "unlock"
              /\ Act(cur.kind) \in {"GetMute", "GetVolume"}) =>
            /\ pending' = Append(pending, pending'[Len(pending')])
            /\ pending'[Len(pending')].cid = cur.cid
            /\ pending'[Len(pending')].kind = cur.kind
            /\ pending'[Len(pending')].prim = "get_info"
            /\ pending'[Len(pending')].id = cur.id
            /\ Cat(cur.kind) \in {"sink_input", "source_output"} =>
                  cur.id.t = "Index"
       /\ (cbRun.ev = "none" /\ cbRun'.ev = "reply") =>
            (pending # <<>> /\ cbRun'.op = Head(pending))
       /\ GetDelivers =>
            /\ respCount' = [respCount EXCEPT ![cbRun.op.cid] = @ + 1]
            /\ respRxAlive =>
                 /\ Len(respQ') = Len(respQ) + 1
                 /\ LET r == respQ'[Len(respQ')]
                        obj == srv.obj[Cat(cbRun.op.kind)]
                    IN  /\ r.cid = cbRun.op.cid
                        /\ r.id = cbRun.op.id
                        /\ Act(cbRun.op.kind) = "GetMute" =>
                             (r.kind = "Mute" /\ r.mute = obj.mute)
                        /\ Act(cbRun.op.kind) = "GetVolume" =>
                             (r.kind = "Volume" /\ r.vols = obj.vol)]_vars

\* GetSourceMute by name of a muted source was answered Mute(Name, true).
C34_Witness ==
    /\ respQ = <<Resp("Mute", 1, Name(ObjName), TRUE, <<>>, <<>>)>>
    /\ srv.obj["source"].mute
    /\ pending = <<>>
    /\ cmdQ = <<>>
    /\ respCount[1] = 1
    /\ wpc = "recv"

\* GetSourceOutputVolume of index 0 was answered Volume(Index(0), ..).
C34_WitnessIndex ==
    /\ respQ = <<Resp("Volume", 1, Index(ObjIndex), FALSE,
                      <<PA_VOLUME_NORM, PA_VOLUME_NORM>>, <<>>)>>
    /\ pending = <<>>
    /\ cmdQ = <<>>

\* ------------------------------------------- disposal after the worker's end

\* The facade is disposed of while idle: Drop begins.
DropBegins ==
    /\ mode = "facade"
    /\ fpc = "idle"
    /\ fpc' \notin {"idle", "find", "wait"}

\* C35: the disposal of a facade whose worker has ended, the request
\* channel being closed, ends without a panic.
C35_DisposalAfterWorkerEnd ==
    [][(DropBegins /\ WorkerGone) => fpc' # "panicked"]_vars

\* ------------------------------------------------ the worker and the lock

\* The places of the worker between a lock() and its unlock().
Locked == {"init_check", "check", "dispatch", "unlock"}

\* C36: the worker holds the lock exactly between a lock() and the one
\* unlock() that follows it on its path: never while it waits for a
\* command and never once it has ended, whatever the way it ended; and the
\* mainloop thread is stopped only while the worker does not hold the lock.
C36_LockBalanced ==
    /\ [](lock = "worker" <=> wpc \in Locked)
    /\ [][(loopRunning /\ ~loopRunning') => lock' # "worker"]_vars

\* The same for a worker whose mainloop.start() succeeded.
C36_BalancedOnceStarted ==
    /\ []((loopRunning \/ everReady \/ ctxState = "failed")
             => (lock = "worker" <=> wpc \in Locked))
    /\ [](wpc \in {"recv", "lock", "stop", "send_disconnected", "exiting", "done"}
             => lock # "worker")
    /\ [][(loopRunning /\ ~loopRunning') => lock' # "worker"]_vars

\* ------------------------------------------------- the order of responses

\* A response to command c is sent in this step.
Answers(c) == respCount'[c] > respCount[c]

C38_SecondSubscribeReplaces ==
    [][/\ (wpc = "dispatch" /\ wpc' = "unlock" /\ cur.kind = "Subscribe") =>
            subCb' = cur.cid
       /\ evQ' # evQ =>
            /\ Forwards
            /\ evQ' = Append(evQ, evQ'[Len(evQ')])
            /\ evQ'[Len(evQ')].sink = subCb
            /\ subCb' = subCb]_vars

\* Two Subscribes were dispatched and answered; the receiver of the first
\* sink is still held, and the one event pushed since went to the second.
C38_Witness ==
    /\ subCb = 2
    /\ 1 \in evAlive
    /\ 2 \in evAlive
    /\ cstat[1] = "done"
    /\ cstat[2] = "done"
    /\ Len(evQ) = 1
    /\ evQ[1].sink = 2

\* ------------------------------------------------------ a failed Subscribe

\* The Subscribe commands answered with an OpError that is still in the
\* response queue.
FailedSubscribes ==
    {respQ[j].cid : j \in {i \in 1..Len(respQ) : respQ[i].kind = "OpError"}}

\* C39: a Subscribe answered with OpError has changed nothing of the
\* subscription: its forwarder is not the one installed, and no event was
\* pushed to its sink.
C39_FailedSubscribeChangesNothing ==
    /\ subCb \notin FailedSubscribes
    /\ \A i \in 1..Len(evQ) : evQ[i].sink \notin FailedSubscribes

\* ------------------------------------------------- the range of a raw value

\* C40: the raw value of a percentage is within the 32 bits; it is 0 for
\* every negative percentage, the largest 32-bit value for every
\* percentage whose product with the nominal value is above that value
\* (6553600 % and more), and below that the truncated product: the value
\* ToRaw gives where the two meet, and growing with the percentage.
C40_PercentageSaturates ==
    (fnIn.f = "value32" /\ fnOut.done) =>
        LET q == fnIn.vol.n
            r == fnOut.raw32
        IN  /\ r.hi \in 0..(Half - 1)
            /\ r.lo \in 0..(Half - 1)
            /\ q < 0 => r = U32(0, 0)
            /\ q >= 6553600 => r = U32_MAX
            /\ (q >= 0 /\ q < 6553600) =>
                  /\ r.hi = q \div 100
                  /\ 100 * r.lo <= (q % 100) * PA_VOLUME_NORM
                  /\ 100 * (r.lo + 1) > (q % 100) * PA_VOLUME_NORM
            /\ (q >= 0 /\ q <= MaxPct) =>
                  ToRaw(fnIn.vol) = r.hi * Half + r.lo

\* 13107200 %, whose product with the nominal value is 2^33, gave the
\* largest 32-bit value.
C40_Witness ==
    /\ fnIn.f = "value32"
    /\ fnIn.vol = Percentage(13107200)
    /\ fnOut.done
    /\ fnOut.raw32 = U32(65535, 65535)

\* -10 % gave 0.
C40_WitnessNegative ==
    /\ fnIn.f = "value32"
    /\ fnIn.vol = Percentage(-10)
    /\ fnOut.done
    /\ fnOut.raw32 = U32(0, 0)
====
